---- MODULE Spec2Model ----
(***************************************************************************)
(* Model of the desktop-file reader of toffee:                             *)
(*   - the line grammar  file_parser  (crates/desktop-entry/src/parser.rs) *)
(*   - the assembler  DesktopFile::parse  (crates/desktop-file/src/lib.rs) *)
(* A text is a sequence of one-character strings.  The peg rules are       *)
(* operators from a text and a position to the position after the match,   *)
(* or Failed.  DesktopFile::parse is a state machine: one step runs the     *)
(* grammar over the whole input, then one step per iteration of the         *)
(* `for line in lines` loop.                                                *)
(***************************************************************************)
EXTENDS Integers, Sequences, FiniteSets, TLC

VARIABLES input, pc, lines, consumed, groups, current_group_name, result,
          call, ret, memory, frame

vars == <<input, pc, lines, consumed, groups, current_group_name, result,
          call, ret, memory, frame>>

----------------------------------------------------------------------------
(* Bounds of the explored inputs *)

\* longest input enumerated character by character
MaxChars == 4
\* most source lines in an input built from LinePool
MaxLines == 4

----------------------------------------------------------------------------
(* Characters *)

LF == "\n"
SP == " "
TAB == "\t"

UpperAZ == {"A","B","C","D","E","F","G","H","I","J","K","L","M",
            "N","O","P","Q","R","S","T","U","V","W","X","Y","Z"}
LowerAZ == {"a","b","c","d","e","f","g","h","i","j","k","l","m",
            "n","o","p","q","r","s","t","u","v","w","x","y","z"}
Digits == {"0","1","2","3","4","5","6","7","8","9"}

\* ['A'..='Z' | 'a'..='z' | '0'..='9' | '-']
KeyChars == UpperAZ \cup LowerAZ \cup Digits \cup {"-"}
\* ['A'..='Z' | 'a'..='z' | '0'..='9' | '-' | '_' | '@']
LocaleChars == UpperAZ \cup LowerAZ \cup Digits \cup {"-", "_", "@"}

----------------------------------------------------------------------------
(* peg primitives *)

Failed == 0

\* the character at position i, or "" at the end of the input
At(s, i) == IF i >= 1 /\ i <= Len(s) THEN s[i] ELSE ""

\* [C]* : the position after the longest run of characters of C from i
RECURSIVE SkipIn(_, _, _)
SkipIn(s, i, C) == IF At(s, i) \in C THEN SkipIn(s, i + 1, C) ELSE i

\* [^C]* : the position after the longest run of characters not in C from i
RECURSIVE SkipNotIn(_, _, _)
SkipNotIn(s, i, C) ==
    IF i <= Len(s) /\ s[i] \notin C THEN SkipNotIn(s, i + 1, C) ELSE i

\* $(...) : the slice of the input from i up to, not including, j
Slice(s, i, j) == SubSeq(s, i, j - 1)

----------------------------------------------------------------------------
(* grammar file_parser *)

\* mutant: spaces and tabs are allowed before the line-feed of a blank line
line_blank_whitespace(s, i) ==
    IF At(s, SkipIn(s, i, {SP, TAB})) = LF
    THEN SkipIn(s, i, {SP, TAB}) + 1 ELSE Failed

\* rule line_blank() = "\n"
line_blank(s, i) == IF At(s, i) = LF THEN i + 1 ELSE Failed

\* mutant: the comment rule leaves its line-feed unread
line_comment_end_keeps_lf(s, i) ==
    IF At(s, i) # "#" THEN Failed
    ELSE LET j == SkipNotIn(s, i + 1, {LF})
         IN  IF At(s, j) = LF THEN j ELSE Failed

\* rule line_comment() = "#" c:$([^'\n']*) "\n"
line_comment_end(s, i) ==
    IF At(s, i) # "#" THEN Failed
    ELSE LET j == SkipNotIn(s, i + 1, {LF})
         IN  IF At(s, j) = LF THEN j + 1 ELSE Failed

line_comment(s, i) == Slice(s, i + 1, line_comment_end(s, i) - 1)

\* mutant: the group name may be empty
line_group_header_end_empty_name(s, i) ==
    IF At(s, i) # "[" THEN Failed
    ELSE LET j == SkipNotIn(s, i + 1, {"[", "]"})
         IN  IF At(s, j) = "]" /\ At(s, j + 1) = LF
             THEN j + 2 ELSE Failed

\* rule line_group_header() = "[" gn:$([^'[' | ']']+) "]\n"
line_group_header_end(s, i) ==
    IF At(s, i) # "[" THEN Failed
    ELSE LET j == SkipNotIn(s, i + 1, {"[", "]"})
         IN  IF j > i + 1 /\ At(s, j) = "]" /\ At(s, j + 1) = LF
             THEN j + 2 ELSE Failed

line_group_header(s, i) == Slice(s, i + 1, line_group_header_end(s, i) - 2)

\* rule locale() = "[" [...]* "]"
locale(s, i) ==
    IF At(s, i) # "[" THEN Failed
    ELSE LET j == SkipIn(s, i + 1, LocaleChars)
         IN  IF At(s, j) = "]" THEN j + 1 ELSE Failed

\* rule key() = $([...]+ locale()?)
key(s, i) ==
    LET j == SkipIn(s, i, KeyChars)
    IN  IF j = i THEN Failed
        ELSE IF locale(s, j) # Failed THEN locale(s, j) ELSE j

\* rule value() = $([^'\n']*)
value(s, i) == SkipNotIn(s, i, {LF})

\* mutant: the spaces after '=' are not consumed
line_entry_pos_keeps_spaces(s, i) ==
    LET k == key(s, i)
    IN  IF k = Failed THEN <<Failed, 0, 0>>
        ELSE LET a == SkipIn(s, k, {SP})
             IN  IF At(s, a) # "=" THEN <<Failed, 0, 0>>
                 ELSE LET b == a + 1
                          e == value(s, b)
                      IN  IF At(s, e) = LF THEN <<k, b, e>>
                          ELSE <<Failed, 0, 0>>

\* rule line_entry() = k:key() " "* "=" " "* v:value() "\n" { (k, v) }
\* the positions: after the key, of the value's start, of the value's end
line_entry_pos(s, i) ==
    LET k == key(s, i)
    IN  IF k = Failed THEN <<Failed, 0, 0>>
        ELSE LET a == SkipIn(s, k, {SP})
             IN  IF At(s, a) # "=" THEN <<Failed, 0, 0>>
                 ELSE LET b == SkipIn(s, a + 1, {SP})
                          e == value(s, b)
                      IN  IF At(s, e) = LF THEN <<k, b, e>>
                          ELSE <<Failed, 0, 0>>

line_entry_end(s, i) ==
    LET p == line_entry_pos(s, i)
    IN  IF p[1] = Failed THEN Failed ELSE p[3] + 1

\* mutant: the key is stored without its locale suffix
line_entry_base_key(s, i) ==
    LET p == line_entry_pos(s, i)
    IN  <<Slice(s, i, SkipIn(s, i, KeyChars)), Slice(s, p[2], p[3])>>

line_entry(s, i) ==
    LET p == line_entry_pos(s, i)
    IN  <<Slice(s, i, p[1]), Slice(s, p[2], p[3])>>

\* enum Line
Blank == [tag |-> "Blank"]
Comment(c) == [tag |-> "Comment", text |-> c]
GroupHeader(gn) == [tag |-> "GroupHeader", name |-> gn]
Entry(k, v) == [tag |-> "Entry", key |-> k, value |-> v]

\* rule line(): ordered choice; the result is the end position and the Line
line(s, i) ==
    IF line_blank(s, i) # Failed
    THEN [end |-> line_blank(s, i), line |-> Blank]
    ELSE IF line_comment_end(s, i) # Failed
    THEN [end |-> line_comment_end(s, i), line |-> Comment(line_comment(s, i))]
    ELSE IF line_group_header_end(s, i) # Failed
    THEN [end |-> line_group_header_end(s, i),
          line |-> GroupHeader(line_group_header(s, i))]
    ELSE IF line_entry_end(s, i) # Failed
    THEN [end |-> line_entry_end(s, i),
          line |-> Entry(line_entry(s, i)[1], line_entry(s, i)[2])]
    ELSE [end |-> Failed]

\* line()* from position i: the lines matched and the position reached
RECURSIVE line_star(_, _, _)
line_star(s, i, acc) ==
    LET r == line(s, i)
    IN  IF r.end = Failed THEN [end |-> i, lines |-> acc]
        ELSE line_star(s, r.end, Append(acc, r.line))

\* mutant: the lines read so far are returned whatever follows them
file_prefix(s) ==
    LET r == line_star(s, 1, <<>>)
    IN  [ok |-> TRUE, lines |-> r.lines]

\* pub rule file() = line()* ; a pub rule must consume the whole input
file(s) ==
    LET r == line_star(s, 1, <<>>)
    IN  IF r.end = Len(s) + 1 THEN [ok |-> TRUE, lines |-> r.lines]
        ELSE [ok |-> FALSE, lines |-> <<>>]

----------------------------------------------------------------------------
(* Inputs *)

\* all texts over the alphabet A of length exactly n
RECURSIVE TextsOfLen(_, _)
TextsOfLen(A, n) ==
    IF n = 0 THEN {<<>>}
    ELSE {Append(t, c) : t \in TextsOfLen(A, n - 1), c \in A}

Alphabet == {"a", SP, TAB, "=", "[", "]", LF, "#"}

CharInputs == UNION {TextsOfLen(Alphabet, n) : n \in 0..MaxChars}

\* source lines the assembler inputs are built from
LinePool ==
    { <<"[", "g", "]", LF>>,
      <<"[", "h", "]", LF>>,
      <<"k", "=", "v", LF>>,
      <<"k", "=", "w", LF>>,
      <<"j", "=", "v", LF>>,
      <<LF>>,
      <<"#", "c", LF>>,
      <<"k", LF>> }

RECURSIVE Concat(_)
Concat(ss) == IF ss = <<>> THEN <<>> ELSE Head(ss) \o Concat(Tail(ss))

LineInputs ==
    UNION {{Concat(ls) : ls \in [1..n -> LinePool]} : n \in 0..MaxLines}

\* single lines that exercise the entry and header rules
SampleLines ==
    { <<"k", SP, SP, "=", SP, "v", SP, LF>>,
      <<"k", TAB, "=", "v", LF>>,
      <<"k", "=", TAB, "v", LF>>,
      <<"k", "=", SP, TAB, "v", LF>>,
      <<"k", "=", LF>>,
      <<"=", "v", LF>>,
      <<"k", "[", "]", "=", "v", LF>>,
      <<"k", "[", "s", "_", "Y", "@", "L", "]", "=", "v", LF>>,
      <<"k", "[", "s", "]", "k", "=", "v", LF>>,
      <<"k", "[", "s", "[", "]", "=", "v", LF>>,
      <<"k", "[", "s", "]", "]", "=", "v", LF>>,
      <<"k", "_", "=", "v", LF>>,
      <<"K", "-", "9", "=", "v", LF>>,
      <<"[", "g", SP, "h", "]", LF>>,
      <<"[", "g", "]", SP, LF>>,
      <<"[", "g", LF, "h", "]", LF>>,
      <<"[", "g", LF, SP, LF, "h", "]", LF>>,
      <<SP, TAB, LF>> }

SampleInputs ==
    SampleLines \cup {<<"[", "g", "]", LF>> \o l : l \in SampleLines}

\* entries of one base key with and without locale suffixes
LocalePool ==
    { <<"N", "=", "0", LF>>,
      <<"N", "[", "s", "]", "=", "1", LF>>,
      <<"N", "[", "s", "_", "Y", "]", "=", "2", LF>>,
      <<"N", "[", "s", "]", "=", "3", LF>> }

\* a group of up to MaxLines - 1 entries of LocalePool
LocaleInputs ==
    UNION {{<<"[", "g", "]", LF>> \o Concat(ls) : ls \in [1..n -> LocalePool]} :
              n \in 0..(MaxLines - 1)}

Inputs == CharInputs \cup LineInputs \cup SampleInputs \cup LocaleInputs

----------------------------------------------------------------------------
(* DesktopFile::parse *)

\* HashMap::new()
EmptyMap == [x \in {} |-> x]
\* HashMap::insert: the map with k bound to v, replacing an old binding
Insert(m, k, v) == [x \in DOMAIN m \cup {k} |-> IF x = k THEN v ELSE m[x]]
\* HashMap::insert(..).is_some(): the key was already bound
InsertIsSome(m, k) == k \in DOMAIN m

\* mutant: only a header repeating the currently open group is a duplicate
insert_group_is_some_adjacent(gs, group_name) ==
    current_group_name.some /\ current_group_name.val = group_name

\* groups.insert(group_name, Group::new()).is_some()
insert_group_is_some(gs, group_name) == InsertIsSome(gs, group_name)

\* mutant: a key is a duplicate when any group of the Document holds it
insert_entry_is_some_any_group(group, k) ==
    \E g \in DOMAIN groups : k \in DOMAIN groups[g]

\* group.entries.insert(key, value).is_some()
insert_entry_is_some(group, k) == InsertIsSome(group, k)

\* Option<&str>
None == [some |-> FALSE, val |-> <<>>]
Some(x) == [some |-> TRUE, val |-> x]

NoResult == [tag |-> "None"]
Ok(gs) == [tag |-> "Ok", groups |-> gs]
ErrParse == [tag |-> "Err", err |-> "Parse"]
Err(e, arg) == [tag |-> "Err", err |-> e, arg |-> arg]
\* .expect("current group should exist") on None: the thread panics
Panic == [tag |-> "Panic", msg |-> "current group should exist"]

\* no function of the accessor layer or of the value grammars was called yet
NoCall == [fn |-> "none"]
NoRet == [tag |-> "none"]

\* the state at the entry of DesktopFile::parse(s), for s drawn from S
InitWith(S) ==
    /\ input \in S
    /\ pc = "start"
    /\ lines = <<>>
    /\ consumed = 0
    /\ groups = EmptyMap
    /\ current_group_name = None
    /\ result = NoResult
    /\ call = NoCall
    /\ ret = NoRet
    /\ memory = None
    /\ frame = [shown |-> FALSE]

Init == InitWith(Inputs)

\* let lines = file_parser::file(s)?;
ParseFile ==
    /\ pc = "start"
    /\ LET r == file(input)
       IN  IF r.ok
           THEN /\ lines' = r.lines
                /\ pc' = "loop"
                /\ result' = result
           ELSE /\ lines' = <<>>
                /\ pc' = "done"
                /\ result' = ErrParse
    /\ UNCHANGED <<memory, frame, call, ret, input, consumed, groups, current_group_name>>

\* mutant: a Blank or Comment line closes the open group
LineBlankOrComment_ClosesGroup ==
    /\ pc = "loop"
    /\ consumed < Len(lines)
    /\ lines[consumed + 1].tag \in {"Blank", "Comment"}
    /\ consumed' = consumed + 1
    /\ current_group_name' = None
    /\ UNCHANGED <<memory, frame, call, ret, input, pc, lines, groups, result>>

\* Line::Blank | Line::Comment(_) => {}
LineBlankOrComment ==
    /\ pc = "loop"
    /\ consumed < Len(lines)
    /\ lines[consumed + 1].tag \in {"Blank", "Comment"}
    /\ consumed' = consumed + 1
    /\ UNCHANGED <<memory, frame, call, ret, input, pc, lines, groups, current_group_name, result>>

\* Line::GroupHeader(group_name) => { ... }
\* mutant: a header opens its group without inserting it into the map
LineGroupHeader_NoInsert ==
    /\ pc = "loop"
    /\ consumed < Len(lines)
    /\ lines[consumed + 1].tag = "GroupHeader"
    /\ LET group_name == lines[consumed + 1].name
       IN  /\ consumed' = consumed + 1
           /\ groups' = groups
           /\ IF insert_group_is_some(groups, group_name)
              THEN /\ pc' = "done"
                   /\ result' = Err("DuplicateGroup", group_name)
                   /\ UNCHANGED current_group_name
              ELSE /\ current_group_name' = Some(group_name)
                   /\ UNCHANGED <<pc, result>>
    /\ UNCHANGED <<memory, frame, call, ret, input, lines>>

LineGroupHeader ==
    /\ pc = "loop"
    /\ consumed < Len(lines)
    /\ lines[consumed + 1].tag = "GroupHeader"
    /\ LET group_name == lines[consumed + 1].name
       IN  /\ consumed' = consumed + 1
           /\ groups' = Insert(groups, group_name, EmptyMap)
           /\ IF insert_group_is_some(groups, group_name)
              THEN /\ pc' = "done"
                   /\ result' = Err("DuplicateGroup", group_name)
                   /\ UNCHANGED current_group_name
              ELSE /\ current_group_name' = Some(group_name)
                   /\ UNCHANGED <<pc, result>>
    /\ UNCHANGED <<memory, frame, call, ret, input, lines>>

\* mutant: an entry outside of a group is skipped
LineEntry_SkipOutside ==
    /\ pc = "loop"
    /\ consumed < Len(lines)
    /\ lines[consumed + 1].tag = "Entry"
    /\ LET k == lines[consumed + 1].key
           v == lines[consumed + 1].value
       IN  /\ consumed' = consumed + 1
           /\ IF ~current_group_name.some
              THEN UNCHANGED <<pc, result, groups>>
              ELSE LET group_name == current_group_name.val
                       group == groups[group_name]
                   IN  /\ groups' = Insert(groups, group_name,
                                           Insert(group, k, v))
                       /\ IF insert_entry_is_some(group, k)
                          THEN /\ pc' = "done"
                               /\ result' = Err("DuplicateKey", k)
                          ELSE UNCHANGED <<pc, result>>
    /\ UNCHANGED <<memory, frame, call, ret, input, lines, current_group_name>>

\* mutant: a repeated key overwrites the stored value and the loop goes on
LineEntry_Overwrite ==
    /\ pc = "loop"
    /\ consumed < Len(lines)
    /\ lines[consumed + 1].tag = "Entry"
    /\ LET k == lines[consumed + 1].key
           v == lines[consumed + 1].value
       IN  /\ consumed' = consumed + 1
           /\ IF ~current_group_name.some
              THEN /\ pc' = "done"
                   /\ result' = Err("EntryOutsideOfGroup", k)
                   /\ UNCHANGED groups
              ELSE LET group_name == current_group_name.val
                       group == groups[group_name]
                   IN  /\ groups' = Insert(groups, group_name,
                                           Insert(group, k, v))
                       /\ UNCHANGED <<pc, result>>
    /\ UNCHANGED <<memory, frame, call, ret, input, lines, current_group_name>>

\* Line::Entry(key, value) => { ... }
LineEntry ==
    /\ pc = "loop"
    /\ consumed < Len(lines)
    /\ lines[consumed + 1].tag = "Entry"
    /\ LET k == lines[consumed + 1].key
           v == lines[consumed + 1].value
       IN  /\ consumed' = consumed + 1
           /\ IF ~current_group_name.some
              THEN /\ pc' = "done"
                   /\ result' = Err("EntryOutsideOfGroup", k)
                   /\ UNCHANGED groups
              ELSE IF current_group_name.val \notin DOMAIN groups
              THEN /\ pc' = "done"
                   /\ result' = Panic
                   /\ UNCHANGED groups
              ELSE LET group_name == current_group_name.val
                       group == groups[group_name]
                   IN  /\ groups' = Insert(groups, group_name,
                                           Insert(group, k, v))
                       /\ IF insert_entry_is_some(group, k)
                          THEN /\ pc' = "done"
                               /\ result' = Err("DuplicateKey", k)
                          ELSE UNCHANGED <<pc, result>>
    /\ UNCHANGED <<memory, frame, call, ret, input, lines, current_group_name>>

\* Ok(Self { groups })
ReturnOk ==
    /\ pc = "loop"
    /\ consumed = Len(lines)
    /\ pc' = "done"
    /\ result' = Ok(groups)
    /\ UNCHANGED <<memory, frame, call, ret, input, lines, consumed, groups, current_group_name>>

Next ==
    \/ ParseFile
    \/ LineBlankOrComment
    \/ LineGroupHeader
    \/ LineEntry
    \/ ReturnOk

Spec == Init /\ [][Next]_vars

----------------------------------------------------------------------------
(* grammar value_parser *)

CR == "\r"

\* Result<T, ParseError> of a pub rule
ParseOk(v) == [ok |-> TRUE, val |-> v]
ParseErr == [ok |-> FALSE]

\* the result of an inner rule: the position after the match and its value
NoMatch == [end |-> Failed]
Match(e, v) == [end |-> e, val |-> v]

\* mutant: an escaped semicolon is never an escape sequence
string_escape_no_semicolon(s, i, semicolons) ==
    IF At(s, i) # "\\" THEN NoMatch
    ELSE LET c == At(s, i + 1)
         IN  IF c = "s" THEN Match(i + 2, SP)
             ELSE IF c = "n" THEN Match(i + 2, LF)
             ELSE IF c = "t" THEN Match(i + 2, TAB)
             ELSE IF c = "r" THEN Match(i + 2, CR)
             ELSE IF c = "\\" THEN Match(i + 2, "\\")
             ELSE NoMatch

\* mutant: '\n' decodes to the letter n
string_escape_letter_n(s, i, semicolons) ==
    IF At(s, i) # "\\" THEN NoMatch
    ELSE LET c == At(s, i + 1)
         IN  IF c = "s" THEN Match(i + 2, SP)
             ELSE IF c = "n" THEN Match(i + 2, "n")
             ELSE IF c = "t" THEN Match(i + 2, TAB)
             ELSE IF c = "r" THEN Match(i + 2, CR)
             ELSE IF c = ";"
                  THEN IF semicolons = "Escaped" THEN Match(i + 2, ";")
                       ELSE NoMatch
             ELSE IF c = "\\" THEN Match(i + 2, "\\")
             ELSE NoMatch

\* rule string_escape(semicolons) = "\\" c:("s" / "n" / "t" / "r" / ";" / "\\")
string_escape(s, i, semicolons) ==
    IF At(s, i) # "\\" THEN NoMatch
    ELSE LET c == At(s, i + 1)
         IN  IF c = "s" THEN Match(i + 2, SP)
             ELSE IF c = "n" THEN Match(i + 2, LF)
             ELSE IF c = "t" THEN Match(i + 2, TAB)
             ELSE IF c = "r" THEN Match(i + 2, CR)
             ELSE IF c = ";"
                  THEN IF semicolons = "Escaped" THEN Match(i + 2, ";")
                       ELSE NoMatch
             ELSE IF c = "\\" THEN Match(i + 2, "\\")
             ELSE NoMatch

\* mutant: a backslash is not an ordinary character
string_char_no_backslash(s, i, semicolons) ==
    IF i > Len(s) \/ At(s, i) = "\\" THEN NoMatch
    ELSE IF s[i] # ";" THEN Match(i + 1, s[i])
    ELSE IF semicolons = "Raw" THEN Match(i + 1, ";")
    ELSE NoMatch

\* rule string_char(semicolons) = [^';'] / ";" {? Raw => Ok(';') }
string_char(s, i, semicolons) ==
    IF i > Len(s) THEN NoMatch
    ELSE IF s[i] # ";" THEN Match(i + 1, s[i])
    ELSE IF semicolons = "Raw" THEN Match(i + 1, ";")
    ELSE NoMatch

\* rule string_internal(semicolons) = (string_escape / string_char)*
RECURSIVE string_internal(_, _, _, _)
string_internal(s, i, semicolons, acc) ==
    LET e == string_escape(s, i, semicolons)
        c == string_char(s, i, semicolons)
    IN  IF e.end # Failed
        THEN string_internal(s, e.end, semicolons, Append(acc, e.val))
        ELSE IF c.end # Failed
        THEN string_internal(s, c.end, semicolons, Append(acc, c.val))
        ELSE Match(i, acc)

\* pub rule string() = string_raw_semicolons()
string(s) ==
    LET r == string_internal(s, 1, "Raw", <<>>)
    IN  IF r.end = Len(s) + 1 THEN ParseOk(r.val) ELSE ParseErr

\* string_escaped_semicolons() ** ";" from an element that ends at position i
RECURSIVE strings_rest(_, _, _)
strings_rest(s, i, acc) ==
    IF At(s, i) # ";" THEN Match(i, acc)
    ELSE LET r == string_internal(s, i + 1, "Escaped", <<>>)
         IN  strings_rest(s, r.end, Append(acc, r.val))

\* mutant: a trailing empty string is removed even when it is the only one
strings_pop_always(ss) ==
    IF Len(ss) >= 1 /\ ss[Len(ss)] = <<>>
    THEN SubSeq(ss, 1, Len(ss) - 1) ELSE ss

\* if len > 1 && ss[len - 1].is_empty() { ss.pop(); }
strings_pop(ss) ==
    IF Len(ss) > 1 /\ ss[Len(ss)] = <<>>
    THEN SubSeq(ss, 1, Len(ss) - 1) ELSE ss

\* pub rule strings() = ss:(string_escaped_semicolons() ** ";") { ... }
strings(s) ==
    LET first == string_internal(s, 1, "Escaped", <<>>)
        r == strings_rest(s, first.end, <<first.val>>)
    IN  IF r.end = Len(s) + 1 THEN ParseOk(strings_pop(r.val)) ELSE ParseErr

\* the literal lit is at position i of s
Literal(s, i, lit) ==
    /\ i + Len(lit) - 1 <= Len(s)
    /\ SubSeq(s, i, i + Len(lit) - 1) = lit

\* mutant: the rule accepts any text that starts with true or false
boolean_prefix(s) ==
    IF Literal(s, 1, <<"t", "r", "u", "e">>) THEN ParseOk(TRUE)
    ELSE IF Literal(s, 1, <<"f", "a", "l", "s", "e">>) THEN ParseOk(FALSE)
    ELSE ParseErr

\* pub rule boolean() = "true" { true } / "false" { false }
boolean(s) ==
    IF Literal(s, 1, <<"t", "r", "u", "e">>)
    THEN IF Len(s) = 4 THEN ParseOk(TRUE) ELSE ParseErr
    ELSE IF Literal(s, 1, <<"f", "a", "l", "s", "e">>)
    THEN IF Len(s) = 5 THEN ParseOk(FALSE) ELSE ParseErr
    ELSE ParseErr

----------------------------------------------------------------------------
(* grammar value_type: numeric *)

\* the value of a decimal digit
DigitValue(c) ==
    CASE c = "0" -> 0 [] c = "1" -> 1 [] c = "2" -> 2 [] c = "3" -> 3
      [] c = "4" -> 4 [] c = "5" -> 5 [] c = "6" -> 6 [] c = "7" -> 7
      [] c = "8" -> 8 [] c = "9" -> 9

\* the number a text of decimal digits denotes
RECURSIVE DecimalOf(_)
DecimalOf(ds) ==
    IF ds = <<>> THEN 0
    ELSE DecimalOf(SubSeq(ds, 1, Len(ds) - 1)) * 10 + DigitValue(ds[Len(ds)])

\* num / 10^scale without trailing zeros in the fraction
RECURSIVE Reduced(_, _, _)
Reduced(negative, num, scale) ==
    IF scale > 0 /\ num % 10 = 0 THEN Reduced(negative, num \div 10, scale - 1)
    ELSE [negative |-> negative, num |-> num, scale |-> scale]

\* str::parse::<f64> on a text of signs, digits and dots: an optional sign,
\* then digits with at most one '.', at least one digit in all; the value is
\* kept as an exact decimal
f64_parse(n) ==
    LET signed == At(n, 1) \in {"+", "-"}
        from == IF signed THEN 2 ELSE 1
        dot == SkipIn(n, from, Digits)
        end == IF At(n, dot) = "." THEN SkipIn(n, dot + 1, Digits) ELSE dot
        whole == Slice(n, from, dot)
        fraction == IF At(n, dot) = "." THEN Slice(n, dot + 1, end) ELSE <<>>
    IN  IF end = Len(n) + 1 /\ Len(whole) + Len(fraction) >= 1
        THEN ParseOk(Reduced(At(n, 1) = "-",
                             DecimalOf(whole \o fraction), Len(fraction)))
        ELSE ParseErr

\* rule sign() = ['+' | '-'], taken as sign()?
sign_opt(s, i) == IF At(s, i) \in {"+", "-"} THEN i + 1 ELSE i

\* mutant: digit()* in place of digit()+ before the '.'
numeric_end_no_digit(s) ==
    LET i1 == sign_opt(s, 1)
        i2 == SkipIn(s, i1, Digits)
    IN  IF At(s, i2) = "." THEN SkipIn(s, i2 + 1, Digits) ELSE i2

\* $(sign()? digit()+ ("." digit()*)?) : the position after the match
numeric_end(s) ==
    LET i1 == sign_opt(s, 1)
        i2 == SkipIn(s, i1, Digits)
    IN  IF i2 = i1 THEN Failed
        ELSE IF At(s, i2) = "." THEN SkipIn(s, i2 + 1, Digits) ELSE i2

\* pub rule numeric() -> f64 = n:$(..) {? n.parse().or(Err("f64")) }
numeric(s) ==
    LET e == numeric_end(s)
    IN  IF e = Failed \/ e # Len(s) + 1 THEN ParseErr
        ELSE f64_parse(Slice(s, 1, e))

----------------------------------------------------------------------------
(* The value grammars applied to raw values *)

\* longest raw value enumerated character by character
MaxValueLen == 5
\* longest text of the letters of true or of false
MaxBoolLen == 5

ValueAlphabet == {"a", "s", ";", "\\", SP}

ValueSamples ==
    { <<"\\", "n">>, <<"\\", "t">>, <<"\\", "r">>, <<"\\", "q">>,
      <<"a", SP, "\\", "s", SP, "b", SP, "\\", "n", SP, "\\", "\\", SP, "f">>,
      <<"d", "\\", ";", "c", ";", "b", ";">>,
      <<"d", ";", "c", ";", "b", "\\", ";">>,
      <<"d", ";", "c", ";", "b", ";", ";">>,
      <<"\\", "\\", "\\", "\\", "\\", ";", ";">>,
      <<"a", LF, "b">> }

ValueTexts ==
    UNION {TextsOfLen(ValueAlphabet, n) : n \in 0..MaxValueLen}
        \cup ValueSamples

BoolSamples ==
    { <<"t", "r", "u", "e">>, <<"f", "a", "l", "s", "e">>,
      <<"T", "r", "u", "e">>, <<"T", "R", "U", "E">>,
      <<"F", "a", "l", "s", "e">>, <<"f", "a", "l", "s", "E">>,
      <<SP, "t", "r", "u", "e">>, <<"t", "r", "u", "e", SP>>,
      <<"f", "a", "l", "s", "e", SP>>, <<SP, "f", "a", "l", "s", "e">>,
      <<"t", "r", "u", "e", ";">>, <<"f", "a", "l", "s", "e", "s">>,
      <<"t", "r", "u", "e", "f", "a", "l", "s", "e">>,
      <<"b", "l", "o", "r", "p">>, <<"1">>, <<"0">>,
      <<"y", "e", "s">>, <<"n", "o">> }

BoolTexts ==
    UNION {TextsOfLen({"t", "r", "u", "e"}, n) : n \in 0..MaxBoolLen}
        \cup UNION {TextsOfLen({"f", "a", "l", "s", "e"}, n) :
                        n \in 0..MaxBoolLen}
        \cup BoolSamples

\* longest numeric text enumerated character by character
MaxNumLen == 4

NumericAlphabet == {"+", "-", "1", "0", ".", "e"}

NumericSamples ==
    { <<"+", "1", "0", ".", "0", "2">>, <<"-", "5">>, <<"1", "0", ".">>,
      <<"-", "5", ".", "5">>, <<"1", "0", ".", "0", "2">>,
      <<"1", "e", "5">>, <<"1", ".", "2", "e", "3">>, <<"1", SP>>,
      <<SP, "1">>, <<"0", "x", "1", "0">>, <<"1", ",", "5">>,
      <<"i", "n", "f">>, <<"n", "a", "n">>, <<"1", ".", "2", ".", "3">> }

NumericTexts ==
    UNION {TextsOfLen(NumericAlphabet, n) : n \in 0..MaxNumLen}
        \cup NumericSamples

parseVars ==
    <<input, pc, lines, consumed, groups, current_group_name, result>>

\* each behaviour applies one value grammar to one raw value

\* value_parser::string(v)
DecodeString ==
    /\ call = NoCall
    /\ \E v \in ValueTexts :
         /\ call' = [fn |-> "string", raw |-> v]
         /\ ret' = string(v)
    /\ UNCHANGED <<parseVars, memory, frame>>

\* value_parser::strings(v)
DecodeStrings ==
    /\ call = NoCall
    /\ \E v \in ValueTexts :
         /\ call' = [fn |-> "strings", raw |-> v]
         /\ ret' = strings(v)
    /\ UNCHANGED <<parseVars, memory, frame>>

\* value_parser::boolean(v)
DecodeBoolean ==
    /\ call = NoCall
    /\ \E v \in BoolTexts \cup ValueTexts :
         /\ call' = [fn |-> "boolean", raw |-> v]
         /\ ret' = boolean(v)
    /\ UNCHANGED <<parseVars, memory, frame>>

\* value_type::numeric(v)
DecodeNumeric ==
    /\ call = NoCall
    /\ \E v \in NumericTexts :
         /\ call' = [fn |-> "numeric", raw |-> v]
         /\ ret' = numeric(v)
    /\ UNCHANGED <<parseVars, memory, frame>>

InitValue == InitWith({<<>>})

NextValue ==
    \/ DecodeString
    \/ DecodeStrings
    \/ DecodeBoolean
    \/ DecodeNumeric

SpecValue == InitValue /\ [][NextValue]_vars

----------------------------------------------------------------------------
(* Group accessors: get_raw, get, get_optional, get_required and the
   try_from_group that define_group! generates *)

\* Key::String(key)
KeyString(k) == [kind |-> "String", key |-> k]
\* Key::Localized(LocalizedKey { key, lang, country, modifier })
KeyLocalized(k, lang, country, modifier) ==
    [kind |-> "Localized", key |-> k, lang |-> lang,
     country |-> country, modifier |-> modifier]

\* mutant: key[lang@MODIFIER] is tried before key[lang_COUNTRY]
matches_modifier_first(lk) ==
    LET open == lk.key \o <<"[">> \o lk.lang
    IN  (IF lk.country.some /\ lk.modifier.some
         THEN << open \o <<"_">> \o lk.country.val
                      \o <<"@">> \o lk.modifier.val \o <<"]">> >>
         ELSE <<>>)
        \o (IF lk.modifier.some
            THEN << open \o <<"@">> \o lk.modifier.val \o <<"]">> >>
            ELSE <<>>)
        \o (IF lk.country.some
            THEN << open \o <<"_">> \o lk.country.val \o <<"]">> >>
            ELSE <<>>)
        \o << open \o <<"]">> >>
        \o << lk.key >>

\* LocalizedKey::matches: the keys to try, in order
matches(lk) ==
    LET open == lk.key \o <<"[">> \o lk.lang
    IN  (IF lk.country.some /\ lk.modifier.some
         THEN << open \o <<"_">> \o lk.country.val
                      \o <<"@">> \o lk.modifier.val \o <<"]">> >>
         ELSE <<>>)
        \o (IF lk.country.some
            THEN << open \o <<"_">> \o lk.country.val \o <<"]">> >>
            ELSE <<>>)
        \o (IF lk.modifier.some
            THEN << open \o <<"@">> \o lk.modifier.val \o <<"]">> >>
            ELSE <<>>)
        \o << open \o <<"]">> >>
        \o << lk.key >>

\* self.entries.get(key)
entries_get(group, k) == IF k \in DOMAIN group THEN Some(group[k]) ELSE None

\* Group::get_raw
get_raw(group, k) ==
    IF k.kind = "String" THEN entries_get(group, k.key)
    ELSE LET found == SelectSeq(matches(k),
                                LAMBDA c : entries_get(group, c).some)
         IN  IF found = <<>> THEN None ELSE entries_get(group, found[1])

\* the types V that implement FromRaw
FromRawTypes == {"String", "VecString", "bool"}

\* V::from_raw(raw)
from_raw(V, raw) ==
    CASE V = "String" -> string(raw)
      [] V = "VecString" -> strings(raw)
      [] V = "bool" -> boolean(raw)

\* mutant: a value that does not decode is reported as an absent key
get_malformed_is_absent(group, k, V) ==
    LET raw == get_raw(group, k)
    IN  IF raw.some /\ from_raw(V, raw.val).ok
        THEN Some(from_raw(V, raw.val)) ELSE None

\* Group::get::<V>
get(group, k, V) ==
    LET raw == get_raw(group, k)
    IN  IF raw.some THEN Some(from_raw(V, raw.val)) ELSE None

\* Result<_, E>::Ok
ResultOk(v) == [ok |-> TRUE, val |-> v]
\* E::from(ParseError)
FromParseError == [ok |-> FALSE, err |-> "Parse"]
\* E::from(RequiredKeyMissing(key))
FromRequiredKeyMissing(k) ==
    [ok |-> FALSE, err |-> "RequiredKeyMissing", key |-> k]

\* GroupExt::get_optional::<V, E>
get_optional(group, k, V) ==
    LET got == get(group, KeyString(k), V)
    IN  IF ~got.some THEN ResultOk(None)
        ELSE IF got.val.ok THEN ResultOk(Some(got.val.val))
        ELSE FromParseError

\* GroupExt::get_required::<V, E>
get_required(group, k, V) ==
    LET got == get(group, KeyString(k), V)
    IN  IF ~got.some THEN FromRequiredKeyMissing(k)
        ELSE IF got.val.ok THEN ResultOk(got.val.val)
        ELSE FromParseError

\* a declared field: its key, Required<V> or Option<V>, and V
Field(k, required, V) == [key |-> k, required |-> required, type |-> V]

\* <$field_type as GroupValue<E>>::get_from(group, key)
get_from(group, field) ==
    IF field.required THEN get_required(group, field.key, field.type)
    ELSE get_optional(group, field.key, field.type)

\* the fields of Self { .. } from the i-th on, each followed by `?`
RECURSIVE try_fields(_, _, _, _)
try_fields(group, schema, i, acc) ==
    IF i > Len(schema) THEN ResultOk(acc)
    ELSE LET r == get_from(group, schema[i])
         IN  IF r.ok THEN try_fields(group, schema, i + 1, Append(acc, r.val))
             ELSE r

\* mutant: every field is evaluated and the error of the last failing one is
\* returned
try_from_group_last_error(group, schema) ==
    LET rs == [i \in 1..Len(schema) |-> get_from(group, schema[i])]
        bad == {i \in 1..Len(schema) : ~rs[i].ok}
    IN  IF bad = {} THEN ResultOk([i \in 1..Len(schema) |-> rs[i].val])
        ELSE rs[CHOOSE i \in bad : \A j \in bad : j <= i]

\* try_from_group of a struct declared with define_group!
try_from_group(group, schema) == try_fields(group, schema, 1, <<>>)

----------------------------------------------------------------------------
(* The accessors applied to the groups of a parsed file *)

\* most fields of a declared struct
MaxFields == 2

\* entries of the base key N with every kind of locale suffix
LocalizedLines ==
    << <<"N", "=", "0", LF>>,
       <<"N", "[", "s", "]", "=", "1", LF>>,
       <<"N", "[", "s", "_", "Y", "]", "=", "2", LF>>,
       <<"N", "[", "s", "@", "L", "]", "=", "3", LF>>,
       <<"N", "[", "s", "_", "Y", "@", "L", "]", "=", "4", LF>> >>

\* the lines of ls whose index is in S, in the order of ls
RECURSIVE Pick(_, _, _)
Pick(ls, S, i) ==
    IF i > Len(ls) THEN <<>>
    ELSE (IF i \in S THEN ls[i] ELSE <<>>) \o Pick(ls, S, i + 1)

\* a group with each subset of the localized entries
LocalizedInputs ==
    { <<"[", "g", "]", LF>> \o Pick(LocalizedLines, S, 1) :
        S \in SUBSET (1..Len(LocalizedLines)) }

\* values of the key a and of the key b, some of them no boolean
ValuesOfA ==
    { <<"t", "r", "u", "e">>, <<"x", ";", "y", ";">>, <<"\\", "s">> }
ValuesOfB ==
    { <<"f", "a", "l", "s", "e">>, <<"t", "r", "u">>, <<>> }

\* a group with at most one entry for a and at most one for b
TypedInputs ==
    { <<"[", "g", "]", LF>> \o la \o lb :
        la \in {<<>>} \cup {<<"a", "=">> \o v \o <<LF>> : v \in ValuesOfA},
        lb \in {<<>>} \cup {<<"b", "=">> \o v \o <<LF>> : v \in ValuesOfB} }

\* two groups with the same key, after a comment and a blank line
TwoGroupInputs ==
    { <<"#", "c", LF, LF, "[", "g", "]", LF, "a", "=", "t", "r", "u", "e", LF,
        "[", "h", "]", LF, "a", "=", "x", LF>> }

GetInputs == LocalizedInputs \cup TypedInputs \cup TwoGroupInputs

\* base keys, languages, countries and modifiers of the lookups
GetKeys == {<<"N">>, <<"a">>, <<"b">>, <<"N", "[", "s", "]">>}
GetLangs == {<<"s">>, <<"d">>}
GetCountries == {None, Some(<<"Y">>)}
GetModifiers == {None, Some(<<"L">>)}
LookupKeys ==
    {KeyString(k) : k \in GetKeys}
        \cup {KeyLocalized(k, l, c, m) :
                k \in {<<"N">>, <<"a">>}, l \in GetLangs,
                c \in GetCountries, m \in GetModifiers}

Fields ==
    {Field(k, r, V) : k \in {<<"a">>, <<"b">>}, r \in BOOLEAN,
                      V \in FromRawTypes}
Schemas == UNION {[1..n -> Fields] : n \in 0..MaxFields}

\* the file was parsed and no accessor was called on it yet
Parsed_NoCall == pc = "done" /\ result.tag = "Ok" /\ call = NoCall

\* file.group(g).unwrap().get_raw(key)
GetRaw ==
    /\ Parsed_NoCall
    /\ \E g \in DOMAIN result.groups, k \in LookupKeys :
         /\ call' = [fn |-> "get_raw", group |-> g, key |-> k]
         /\ ret' = get_raw(result.groups[g], k)
    /\ UNCHANGED <<parseVars, memory, frame>>

\* file.group(g).unwrap().get::<V>(key)
Get ==
    /\ Parsed_NoCall
    /\ \E g \in DOMAIN result.groups, k \in LookupKeys, V \in FromRawTypes :
         /\ call' = [fn |-> "get", group |-> g, key |-> k, type |-> V]
         /\ ret' = get(result.groups[g], k, V)
    /\ UNCHANGED <<parseVars, memory, frame>>

\* file.group(g).unwrap().get_optional::<V, E>(key)
GetOptional ==
    /\ Parsed_NoCall
    /\ \E g \in DOMAIN result.groups, k \in GetKeys, V \in FromRawTypes :
         /\ call' = [fn |-> "get_optional", group |-> g, key |-> k,
                     type |-> V]
         /\ ret' = get_optional(result.groups[g], k, V)
    /\ UNCHANGED <<parseVars, memory, frame>>

\* file.group(g).unwrap().get_required::<V, E>(key)
GetRequired ==
    /\ Parsed_NoCall
    /\ \E g \in DOMAIN result.groups, k \in GetKeys, V \in FromRawTypes :
         /\ call' = [fn |-> "get_required", group |-> g, key |-> k,
                     type |-> V]
         /\ ret' = get_required(result.groups[g], k, V)
    /\ UNCHANGED <<parseVars, memory, frame>>

\* S::try_from_group(file.group(g).unwrap()) for a struct S of define_group!
TryFromGroup ==
    /\ Parsed_NoCall
    /\ \E g \in DOMAIN result.groups, schema \in Schemas :
         /\ call' = [fn |-> "try_from_group", group |-> g,
                     schema |-> schema]
         /\ ret' = try_from_group(result.groups[g], schema)
    /\ UNCHANGED <<parseVars, memory, frame>>

InitGet == InitWith(GetInputs)

NextGet ==
    \/ ParseFile
    \/ LineBlankOrComment
    \/ LineGroupHeader
    \/ LineEntry
    \/ ReturnOk
    \/ GetRaw
    \/ Get
    \/ GetOptional
    \/ GetRequired
    \/ TryFromGroup

SpecGet == InitGet /\ [][NextGet]_vars

----------------------------------------------------------------------------
(* grammar exec_parser and Exec::from_value *)

QUOTE == "\""
BACKSLASH == "\\"

\* ExecArgument::String(s)
ArgString(s) == [tag |-> "String", val |-> s]
\* ExecArgument::FieldCode(c)
ArgFieldCode(c) == [tag |-> "FieldCode", val |-> c]

\* rule program() = $([^' ']+) : the position after the match
program_end(s, i) ==
    LET e == SkipNotIn(s, i, {SP}) IN IF e = i THEN Failed ELSE e

\* rule argument_field_code() -> char = "%" fc:[^' '] { fc }
argument_field_code(s, i) ==
    IF At(s, i) = "%" /\ i + 1 <= Len(s) /\ s[i + 1] # SP
    THEN Match(i + 2, s[i + 1]) ELSE NoMatch

\* mutant: only the letters n and t may follow the backslash
argument_quoted_string_escape_fixed_set(s, i) ==
    IF At(s, i) = BACKSLASH /\ At(s, i + 1) \in {"n", "t"}
    THEN Match(i + 2, s[i + 1]) ELSE NoMatch

\* rule argument_quoted_string_escape() -> char = "\\" c:[_] { c }
argument_quoted_string_escape(s, i) ==
    IF At(s, i) = BACKSLASH /\ i + 1 <= Len(s)
    THEN Match(i + 2, s[i + 1]) ELSE NoMatch

\* rule argument_quoted_string_char() -> char = [^'\\' | '\"']
argument_quoted_string_char(s, i) ==
    IF i <= Len(s) /\ s[i] \notin {BACKSLASH, QUOTE}
    THEN Match(i + 1, s[i]) ELSE NoMatch

\* (argument_quoted_string_escape() / argument_quoted_string_char())*
RECURSIVE argument_quoted_string_internal(_, _, _)
argument_quoted_string_internal(s, i, acc) ==
    LET e == argument_quoted_string_escape(s, i)
        c == argument_quoted_string_char(s, i)
    IN  IF e.end # Failed
        THEN argument_quoted_string_internal(s, e.end, Append(acc, e.val))
        ELSE IF c.end # Failed
        THEN argument_quoted_string_internal(s, c.end, Append(acc, c.val))
        ELSE Match(i, acc)

\* rule argument_quoted_string() -> String = "\"" s:(..)* "\"" { collect }
argument_quoted_string(s, i) ==
    IF At(s, i) # QUOTE THEN NoMatch
    ELSE LET r == argument_quoted_string_internal(s, i + 1, <<>>)
         IN  IF At(s, r.end) = QUOTE THEN Match(r.end + 1, r.val)
             ELSE NoMatch

\* rule argument_string() = $([^' ']+)
argument_string(s, i) ==
    LET e == SkipNotIn(s, i, {SP})
    IN  IF e = i THEN NoMatch ELSE Match(e, Slice(s, i, e))

\* rule argument() -> ExecArgument: field code / quoted string / string
argument(s, i) ==
    LET fc == argument_field_code(s, i)
        q == argument_quoted_string(s, i)
        b == argument_string(s, i)
    IN  IF fc.end # Failed
        THEN Match(fc.end, IF fc.val = "%" THEN ArgString(<<"%">>)
                           ELSE ArgFieldCode(fc.val))
        ELSE IF q.end # Failed THEN Match(q.end, ArgString(q.val))
        ELSE IF b.end # Failed THEN Match(b.end, ArgString(b.val))
        ELSE NoMatch

\* argument() ** " " after an argument that ends at position i
RECURSIVE arguments_rest(_, _, _)
arguments_rest(s, i, acc) ==
    IF At(s, i) # SP THEN Match(i, acc)
    ELSE LET r == argument(s, i + 1)
         IN  IF r.end = Failed THEN Match(i, acc)
             ELSE arguments_rest(s, r.end, Append(acc, r.val))

\* argument() ** " " from position i: zero or more arguments
arguments(s, i) ==
    LET r == argument(s, i)
    IN  IF r.end = Failed THEN Match(i, <<>>)
        ELSE arguments_rest(s, r.end, <<r.val>>)

\* mutant: the program ends at the end of the value
exec_program_whole(s) ==
    IF s = <<>> THEN ParseErr
    ELSE ParseOk([program |-> s, arguments |-> <<>>])

\* pub rule exec() = p:program() a:(" " a:(argument() ** " ") { a })?
exec(s) ==
    LET p == program_end(s, 1)
        a == arguments(s, p + 1)
        e == IF At(s, p) = SP THEN a.end ELSE p
    IN  IF p = Failed \/ e # Len(s) + 1 THEN ParseErr
        ELSE ParseOk([program |-> Slice(s, 1, p),
                      arguments |-> IF At(s, p) = SP THEN a.val ELSE <<>>])

\* String::from_value(value): the String value grammar
String_from_value(v) == string(v)

\* mutant: the command-line grammar is applied to the raw value
Exec_from_value_raw(v) == exec(v)

\* impl FromValue for Exec: from_value
Exec_from_value(v) ==
    LET decoded == String_from_value(v)
    IN  IF ~decoded.ok THEN ParseErr ELSE exec(decoded.val)

----------------------------------------------------------------------------
(* The command-line grammar applied to raw values *)

\* longest Exec value enumerated character by character
MaxExecLen == 5

ExecAlphabet == {"a", "s", "%", QUOTE, BACKSLASH, SP}

ExecSamples ==
    { <<"k", "a", "t", "e", SP, "-", "b", SP, "%", "U">>,
      <<"p", SP, "x", SP, "%", "%", SP, "y">>,
      <<"p", SP, "%", "f", "o", "o">>,
      <<"p", SP, "%", SP, "a">>,
      <<"p", SP, QUOTE, "a", SP, "b", QUOTE, SP, "c">>,
      <<"p", SP, QUOTE, "a", BACKSLASH, QUOTE, "b", QUOTE>>,
      <<"p", SP, QUOTE, "a", SP, "b">>,
      <<"p", SP, QUOTE, BACKSLASH, BACKSLASH, "$", QUOTE, SP, "%", "u">>,
      <<"p", SP, QUOTE, BACKSLASH, BACKSLASH, BACKSLASH, BACKSLASH,
        QUOTE, SP, "a">>,
      <<"p", BACKSLASH, "s", "-", "c", BACKSLASH, "s", "%", "u">>,
      <<"p", SP, SP, "a", SP, "b">>,
      <<"p", SP, "a", SP, "b", SP>>,
      <<"%", "f", SP, "-", "b", SP, "x">>,
      <<QUOTE, "x", QUOTE, SP, "y">>,
      <<"p", SP, QUOTE, "a", SP, BACKSLASH, QUOTE, "b", QUOTE, SP, "c">>,
      <<"s", "h", BACKSLASH, "s", "-", "c", SP, QUOTE, "u", "=",
        BACKSLASH, BACKSLASH, "$", "(", "e", SP,
        BACKSLASH, BACKSLASH, QUOTE, BACKSLASH, BACKSLASH, "$",
        "1", BACKSLASH, BACKSLASH, QUOTE, ")", QUOTE, SP, "%", "u">> }

ExecTexts ==
    UNION {TextsOfLen(ExecAlphabet, n) : n \in 0..MaxExecLen}
        \cup ExecSamples

\* exec_parser::exec(v)
ParseExec ==
    /\ call = NoCall
    /\ \E v \in ExecTexts :
         /\ call' = [fn |-> "exec", raw |-> v]
         /\ ret' = exec(v)
    /\ UNCHANGED <<parseVars, memory, frame>>

\* Exec::from_value(v)
DecodeExec ==
    /\ call = NoCall
    /\ \E v \in ExecTexts :
         /\ call' = [fn |-> "Exec::from_value", raw |-> v]
         /\ ret' = Exec_from_value(v)
    /\ UNCHANGED <<parseVars, memory, frame>>

InitExec == InitWith({<<>>})

NextExec ==
    \/ ParseExec
    \/ DecodeExec

SpecExec == InitExec /\ [][NextExec]_vars

----------------------------------------------------------------------------
(* Toffee: the selected index of the launcher, frame by frame *)

\* ui.memory(|m| m.data.get_temp(id.with("selected_index")))
\*     .unwrap_or_default()
selected_index(m) == IF m.some THEN m.val ELSE 0

\* ui.memory_mut(|m| m.data.insert_temp(id.with("selected_index"), i))
set_selected_index(m, i) == Some(i)

\* the key motions of a frame: ArrowUp, ArrowDown or neither
Motions == {"None", "Up", "Down"}

\* Toffee::update_selected_index: the selected index of this frame, whether
\* it differs from the stored one, and the memory after the update
update_selected_index(m, entries_len, motion) ==
    LET initial_selected_index == selected_index(m)
        in_bounds == IF initial_selected_index < entries_len
                     THEN initial_selected_index ELSE 0
        moved == IF motion = "Up" /\ in_bounds # 0 THEN in_bounds - 1
                 ELSE IF motion = "Down" /\ in_bounds + 1 # entries_len
                 THEN in_bounds + 1
                 ELSE in_bounds
        selected_index_changed == moved # initial_selected_index
    IN  [selected_index |-> moved,
         selected_index_changed |-> selected_index_changed,
         memory |-> IF selected_index_changed
                    THEN set_selected_index(m, moved) ELSE m]

\* entries[i] with a zero-based index: the element, or the panic of an index
\* out of bounds
IndexPanic == [panic |-> "index out of bounds"]
entries_index(entries, i) ==
    IF i < Len(entries) THEN Some(entries[i + 1]) ELSE IndexPanic

\* mutant: the entry is read without the check of selected_index_valid
selected_entry_unchecked(entries, index, enter_pressed, double_clicked) ==
    IF enter_pressed \/ double_clicked THEN entries_index(entries, index)
    ELSE None

\* let selected_entry = if (enter_pressed || entry_double_clicked)
\*     && selected_index_valid { Some(entries[selected_index]) } else { None }
selected_entry(entries, index, enter_pressed, double_clicked) ==
    LET selected_index_valid == index < Len(entries)
    IN  IF (enter_pressed \/ double_clicked) /\ selected_index_valid
        THEN entries_index(entries, index)
        ELSE None

\* most entries of a frame
MaxEntries == 3

\* the entry lists of the frames: the first n of a list of distinct entries
EntryLists == {[i \in 1..n |-> <<"entry", i>>] : n \in 0..MaxEntries}

\* no frame was shown yet
NoFrame == [shown |-> FALSE]

\* Toffee::new(id, data, input).show(ui, entry_contents) for one frame: the
\* entries of the frame, the key motion, Enter, the entry clicked if any,
\* whether an entry was double-clicked and whether the query text changed
Show ==
    \E entries \in EntryLists, motion \in Motions,
       enter_pressed \in BOOLEAN, query_changed \in BOOLEAN :
      \E clicked \in {None} \cup {Some(i) : i \in 0..(Len(entries) - 1)},
         double_clicked \in {d \in BOOLEAN : d => entries # <<>>} :
        LET u == update_selected_index(memory, Len(entries), motion)
        IN  /\ memory' = IF clicked.some
                         THEN set_selected_index(u.memory, clicked.val)
                         ELSE u.memory
            /\ frame' = [shown |-> TRUE,
                         entries |-> entries,
                         stored |-> selected_index(memory),
                         motion |-> motion,
                         enter_pressed |-> enter_pressed,
                         clicked |-> clicked,
                         double_clicked |-> double_clicked,
                         selected_index |-> u.selected_index,
                         input_changed |-> query_changed,
                         selected_entry |->
                             selected_entry(entries, u.selected_index,
                                            enter_pressed, double_clicked)]
            /\ UNCHANGED <<parseVars, call, ret>>

InitToffee == InitWith({<<>>})

NextToffee == Show

SpecToffee == InitToffee /\ [][NextToffee]_vars

----------------------------------------------------------------------------
(* The Line sequence read declaratively, for the properties below *)

Min(S) == CHOOSE x \in S : \A y \in S : x <= y
Max(S) == CHOOSE x \in S : \A y \in S : x >= y

IsHeader(i) == lines[i].tag = "GroupHeader"
IsEntry(i) == lines[i].tag = "Entry"

\* the indexes of the GroupHeader lines before line i
HeadersBefore(i) == {j \in 1..(i - 1) : IsHeader(j)}
\* the group names declared by the headers before line i
NamesBefore(i) == {lines[j].name : j \in HeadersBefore(i)}
\* the index of the header whose group is open when line i is read
OpenHeader(i) == Max(HeadersBefore(i))
\* an earlier entry of the group open at line i has the key of line i
KeySeenInOpenGroup(i) ==
    \E j \in (OpenHeader(i) + 1)..(i - 1) :
        IsEntry(j) /\ lines[j].key = lines[i].key

\* the grammar accepted the input and the loop has started
Assembling == pc = "loop" \/ (pc = "done" /\ result # ErrParse)

IsErr(e, arg) == pc = "done" /\ result = Err(e, arg)

----------------------------------------------------------------------------
(* C1: a GroupHeader line whose name an earlier GroupHeader line already
   declared makes parse fail with DuplicateGroup of exactly that name,
   adjacent or not, with or without entries; a header with a name not yet
   seen does not fail, inserts an empty group and becomes the open group. *)
C1_DuplicateGroup ==
    Assembling =>
        \A i \in 1..consumed : IsHeader(i) =>
            LET n == lines[i].name
            IN  IF n \in NamesBefore(i)
                THEN i = consumed /\ IsErr("DuplicateGroup", n)
                ELSE /\ n \in DOMAIN groups
                     /\ i = consumed =>
                          /\ result.tag # "Err"
                          /\ groups[n] = EmptyMap
                          /\ current_group_name = Some(n)

\* a duplicate header was reported although another group, with an entry,
\* was opened between the two headers of the same name
C1_Witness ==
    /\ pc = "done" /\ result.tag = "Err" /\ result.err = "DuplicateGroup"
    /\ \E i, j \in 1..consumed :
         /\ i < j /\ j < consumed
         /\ IsHeader(i) /\ lines[i].name = result.arg
         /\ IsHeader(j) /\ lines[j].name # result.arg
         /\ \E e \in 1..consumed : IsEntry(e)

(* C2: an Entry line before any GroupHeader line makes parse fail with
   EntryOutsideOfGroup of that entry's key; an Entry line after at least one
   GroupHeader line never produces EntryOutsideOfGroup. *)
C2_EntryOutsideOfGroup ==
    (pc = "done" /\ result # ErrParse) =>
        LET outside == {i \in 1..Len(lines) :
                            IsEntry(i) /\ HeadersBefore(i) = {}}
        IN  /\ outside # {} =>
                /\ consumed = Min(outside)
                /\ result = Err("EntryOutsideOfGroup", lines[Min(outside)].key)
            /\ (result.tag = "Err" /\ result.err = "EntryOutsideOfGroup") =>
                consumed \in outside

\* the entry outside of a group came after blank and comment lines only
C2_Witness ==
    /\ pc = "done" /\ result.tag = "Err"
    /\ result.err = "EntryOutsideOfGroup"
    /\ consumed > 1
    /\ result.arg = lines[consumed].key

(* C3: an Entry line raises DuplicateKey(key) if and only if the same
   complete key was already inserted into the open group since its header;
   the same key in two different groups is not an error. *)
C3_DuplicateKey ==
    Assembling =>
        /\ (consumed >= 1 /\ IsEntry(consumed) /\ HeadersBefore(consumed) # {})
              => (IsErr("DuplicateKey", lines[consumed].key)
                    <=> KeySeenInOpenGroup(consumed))
        /\ (result.tag = "Err" /\ result.err = "DuplicateKey") =>
              /\ IsEntry(consumed) /\ HeadersBefore(consumed) # {}
              /\ result.arg = lines[consumed].key

\* the same key was stored in two different groups without an error
C3_Witness ==
    /\ pc = "done" /\ result.tag = "Ok"
    /\ \E g, h \in DOMAIN groups :
         g # h /\ DOMAIN groups[g] \cap DOMAIN groups[h] # {}

(* C4: on success the Document has exactly one group per GroupHeader line,
   each group holds exactly the (key, value) pairs of the Entry lines between
   its header and the next header; Blank and Comment lines change neither the
   open group nor the Document; the empty input yields no groups. *)
\* the Document and the open group that the first p lines describe
DocNames(p) == {lines[i].name : i \in HeadersBefore(p + 1)}
DocEntries(p, n) ==
    {<<lines[j].key, lines[j].value>> :
        j \in {j \in 1..p : /\ IsEntry(j)
                            /\ HeadersBefore(j) # {}
                            /\ lines[OpenHeader(j)].name = n}}
DocOpen(p) ==
    IF HeadersBefore(p + 1) = {} THEN None
    ELSE Some(lines[OpenHeader(p + 1)].name)
Pairs(m) == {<<k, m[k]>> : k \in DOMAIN m}

C4_Document ==
    /\ (pc = "loop" \/ (pc = "done" /\ result.tag = "Ok")) =>
         /\ DOMAIN groups = DocNames(consumed)
         /\ Cardinality(DOMAIN groups) = Cardinality(HeadersBefore(consumed + 1))
         /\ \A n \in DOMAIN groups : Pairs(groups[n]) = DocEntries(consumed, n)
         /\ current_group_name = DocOpen(consumed)
    /\ (pc = "done" /\ result.tag = "Ok") =>
         consumed = Len(lines) /\ result.groups = groups
    /\ (pc = "done" /\ input = <<>>) => result = Ok(EmptyMap)

\* a Document with an empty group and a group with an entry, read from lines
\* that include a Blank or Comment line inside a group
C4_Witness ==
    /\ pc = "done" /\ result.tag = "Ok"
    /\ \E g, h \in DOMAIN result.groups :
         result.groups[g] = EmptyMap /\ result.groups[h] # EmptyMap
    /\ \E i \in 2..(Len(lines) - 1) :
         lines[i].tag \in {"Blank", "Comment"} /\ IsEntry(i + 1)

(* C5: assembly aborts at the first structural violation: parse returns the
   error of the earliest violating line, processes no later line and returns
   no Document. *)
ViolationAt(i) ==
    \/ IsEntry(i) /\ HeadersBefore(i) = {}
    \/ IsHeader(i) /\ lines[i].name \in NamesBefore(i)
    \/ IsEntry(i) /\ HeadersBefore(i) # {} /\ KeySeenInOpenGroup(i)
ErrorAt(i) ==
    IF IsHeader(i) THEN Err("DuplicateGroup", lines[i].name)
    ELSE IF HeadersBefore(i) = {} THEN Err("EntryOutsideOfGroup", lines[i].key)
    ELSE Err("DuplicateKey", lines[i].key)
Violations == {i \in 1..Len(lines) : ViolationAt(i)}

C5_FirstViolation ==
    /\ pc = "loop" => \A i \in Violations : consumed < i
    /\ (pc = "done" /\ result # ErrParse) =>
         IF Violations = {} THEN result.tag = "Ok"
         ELSE /\ result = ErrorAt(Min(Violations))
              /\ consumed = Min(Violations)
              /\ "groups" \notin DOMAIN result

\* the input has two violations of different kinds; the first was returned
C5_Witness ==
    /\ pc = "done" /\ result.tag = "Err" /\ result # ErrParse
    /\ \E i, j \in Violations :
         i < j /\ ErrorAt(i).err # ErrorAt(j).err /\ result = ErrorAt(i)

----------------------------------------------------------------------------
(* The input text read declaratively, for the properties below *)

\* the positions of the line-feeds of the text
LFPos(s) == {i \in 1..Len(s) : s[i] = LF}
\* the number of line-feed terminated source lines
NumLines(s) == Cardinality(LFPos(s))
\* the text is empty or ends with a line-feed
Terminated(s) == s = <<>> \/ s[Len(s)] = LF
\* the position of the line-feed that ends source line k
EndOfLine(s, k) ==
    CHOOSE p \in LFPos(s) : Cardinality({q \in LFPos(s) : q <= p}) = k
StartOfLine(s, k) == IF k = 1 THEN 1 ELSE EndOfLine(s, k - 1) + 1
\* source line k, with its line-feed
SourceLine(s, k) == SubSeq(s, StartOfLine(s, k), EndOfLine(s, k))

RECURSIVE TrimEnd(_, _)
TrimEnd(t, W) ==
    IF t # <<>> /\ t[Len(t)] \in W
    THEN TrimEnd(SubSeq(t, 1, Len(t) - 1), W) ELSE t
RECURSIVE TrimStart(_, _)
TrimStart(t, W) ==
    IF t # <<>> /\ t[1] \in W THEN TrimStart(Tail(t), W) ELSE t

\* the forms of one source line l (its last character is its only line-feed)
IsBlankForm(l) == Len(l) = 1
IsCommentForm(l) == l[1] = "#"
IsHeaderForm(l) ==
    /\ Len(l) >= 4
    /\ l[1] = "[" /\ l[Len(l) - 1] = "]"
    /\ \A i \in 2..(Len(l) - 2) : l[i] \notin {"[", "]"}
\* k is key characters, then perhaps a locale suffix of at least minLocale
\* locale characters in brackets
IsKeyForm(k, minLocale) ==
    \E n \in 1..Len(k) :
        /\ \A i \in 1..n : k[i] \in KeyChars
        /\ \/ n = Len(k)
           \/ /\ Len(k) >= n + 2 + minLocale
              /\ k[n + 1] = "[" /\ k[Len(k)] = "]"
              /\ \A i \in (n + 2)..(Len(k) - 1) : k[i] \in LocaleChars
HasEq(l) == \E i \in 1..Len(l) : l[i] = "="
FirstEq(l) == Min({i \in 1..Len(l) : l[i] = "="})
\* the text before the first '=' and the text between it and the line-feed
RawKey(l) == SubSeq(l, 1, FirstEq(l) - 1)
RawValue(l) == SubSeq(l, FirstEq(l) + 1, Len(l) - 1)
\* an entry whose key is separated from '=' by characters of W only
IsEntryForm(l, W) == HasEq(l) /\ IsKeyForm(TrimEnd(RawKey(l), W), 0)

IsLineForm(l) ==
    IsBlankForm(l) \/ IsCommentForm(l) \/ IsHeaderForm(l)
        \/ IsEntryForm(l, {SP})
FormTag(l) ==
    IF IsBlankForm(l) THEN "Blank"
    ELSE IF IsCommentForm(l) THEN "Comment"
    ELSE IF IsHeaderForm(l) THEN "GroupHeader"
    ELSE "Entry"

\* the source lines before line n each have one of the four forms
WellFormedBefore(s, n) ==
    \A k \in 1..(n - 1) : IsLineForm(SourceLine(s, k))
WellFormed(s) == Terminated(s) /\ WellFormedBefore(s, NumLines(s) + 1)

Parsed == pc # "start"

----------------------------------------------------------------------------
(* C6: for every input in which each line ends with a line-feed and has one
   of the four line forms, file returns exactly one Line per source line, in
   source order, each of the variant of the form of its source line. *)
C6_OneLinePerSourceLine ==
    (Parsed /\ WellFormed(input)) =>
        /\ result # ErrParse
        /\ Len(lines) = NumLines(input)
        /\ \A k \in 1..NumLines(input) :
             lines[k].tag = FormTag(SourceLine(input, k))

\* an input of four lines, one of each form
C6_Witness ==
    /\ Parsed /\ WellFormed(input)
    /\ {lines[k].tag : k \in 1..Len(lines)}
          = {"Blank", "Comment", "GroupHeader", "Entry"}

(* C7: every non-empty input whose last character is not a line-feed fails
   the grammar, whatever the form of its last line; the empty input parses to
   zero lines; the input of one line-feed parses as one Blank line. *)
C7_TrailingLineFeed ==
    Parsed =>
        /\ ~Terminated(input) => (pc = "done" /\ result = ErrParse)
        /\ input = <<>> => (result # ErrParse /\ lines = <<>>)
        /\ input = <<LF>> => (result # ErrParse /\ lines = <<Blank>>)

\* an entry line that lacks only its line-feed was rejected
C7_Witness ==
    /\ pc = "done" /\ result = ErrParse
    /\ ~Terminated(input)
    /\ IsEntryForm(Append(input, LF), {SP})
    /\ LFPos(input) = {}

(* C8, as claimed: a line of zero or more spaces and tabs before its
   line-feed is a Blank line and does not make the parse fail. *)
IsWhitespaceLine(l) == \A i \in 1..(Len(l) - 1) : l[i] \in {SP, TAB}

C8_WhitespaceLineIsBlank ==
    (Parsed /\ Terminated(input)
        /\ \A k \in 1..NumLines(input) :
              IsWhitespaceLine(SourceLine(input, k))) =>
        /\ result # ErrParse
        /\ Len(lines) = NumLines(input)
        /\ \A k \in 1..Len(lines) : lines[k] = Blank

(* C8, amended: only a line with no character before its line-feed is a
   Blank line; a line of one or more spaces and tabs before its line-feed is
   not Blank, and where the grammar reads it as a line (it starts the input
   or follows lines of the four forms) the parse fails. *)
C8_OnlyEmptyLineIsBlank ==
    Parsed =>
        /\ \A k \in 1..NumLines(input) :
             (/\ WellFormedBefore(input, k)
              /\ IsWhitespaceLine(SourceLine(input, k))
              /\ Len(SourceLine(input, k)) >= 2)
                => (pc = "done" /\ result = ErrParse)
        /\ Cardinality({i \in 1..Len(lines) : lines[i] = Blank})
             <= Cardinality({k \in 1..NumLines(input) :
                                 IsBlankForm(SourceLine(input, k))})
        /\ (Terminated(input)
              /\ \A k \in 1..NumLines(input) :
                    IsBlankForm(SourceLine(input, k)))
             => /\ result # ErrParse
                /\ Len(lines) = NumLines(input)
                /\ \A k \in 1..Len(lines) : lines[k] = Blank

\* a line of spaces and tabs after a well-formed line was rejected
C8_Witness ==
    /\ pc = "done" /\ result = ErrParse
    /\ Terminated(input) /\ NumLines(input) = 2
    /\ IsHeaderForm(SourceLine(input, 1))
    /\ IsWhitespaceLine(SourceLine(input, 2))
    /\ Len(SourceLine(input, 2)) >= 2

(* C9: in an Entry line the run of whitespace W immediately before and
   immediately after the '=' is consumed and is in neither the stored key nor
   the stored value; the value is otherwise kept verbatim up to the
   line-feed, empty or with trailing whitespace. *)
LastLine(s) == SourceLine(s, NumLines(s))

EntryTrimmedBy(W) ==
    (/\ Parsed /\ Terminated(input) /\ input # <<>>
     /\ WellFormedBefore(input, NumLines(input))
     /\ IsEntryForm(LastLine(input), W)) =>
        /\ result # ErrParse
        /\ Len(lines) = NumLines(input)
        /\ lines[Len(lines)] =
              Entry(TrimEnd(RawKey(LastLine(input)), W),
                    TrimStart(RawValue(LastLine(input)), W))

\* as claimed: the whitespace is spaces and tabs (stated for the lines whose
\* value has a character that is not whitespace)
C9_SpacesAndTabsAroundEq ==
    (/\ Terminated(input) /\ input # <<>>
     /\ HasEq(LastLine(input))
     /\ TrimStart(RawValue(LastLine(input)), {SP, TAB}) # <<>>)
        => EntryTrimmedBy({SP, TAB})

(* C9, amended: the whitespace consumed around '=' is the space character
   only; a tab in the run before '=' makes the line fail the grammar, and a
   tab after '=' or after the consumed spaces is kept as the start of the
   value. *)
C9_SpacesAroundEq ==
    /\ EntryTrimmedBy({SP})
    /\ (/\ Parsed /\ Terminated(input) /\ input # <<>>
        /\ WellFormedBefore(input, NumLines(input))
        /\ IsEntryForm(LastLine(input), {SP, TAB})
        /\ ~IsEntryForm(LastLine(input), {SP}))
          => (pc = "done" /\ result = ErrParse)

\* spaces on both sides of '=' were dropped and the value kept a tab or a
\* trailing space
C9_Witness ==
    /\ Parsed /\ Terminated(input) /\ input # <<>>
    /\ result # ErrParse /\ Len(lines) = NumLines(input)
    /\ IsEntry(Len(lines))
    /\ Len(RawKey(LastLine(input))) > Len(lines[Len(lines)].key)
    /\ Len(RawValue(LastLine(input))) > Len(lines[Len(lines)].value)
    /\ lines[Len(lines)].value # <<>>
    /\ lines[Len(lines)].value[Len(lines[Len(lines)].value)] \in {SP, TAB}

(* C10: an entry key is accepted only if it is one or more key characters,
   optionally followed at its very end by a locale suffix of one or more
   locale characters in brackets; an empty key, an empty suffix, a suffix not
   at the end and a suffix containing a bracket are rejected. *)
C10_KeyForm ==
    (/\ Parsed /\ Terminated(input) /\ input # <<>>
     /\ WellFormedBefore(input, NumLines(input))
     /\ HasEq(LastLine(input))
     /\ LastLine(input)[1] \notin {"#", "["}
     /\ ~IsKeyForm(TrimEnd(RawKey(LastLine(input)), {SP}), 1))
        => (pc = "done" /\ result = ErrParse)

----------------------------------------------------------------------------
(* C11: the locale suffix is part of a key's identity: the complete key,
   suffix included, is what is stored and compared, so 'N' and 'N[s]', and
   'N[s]' and 'N[s_Y]', in one group are distinct entries without
   DuplicateKey, while the same complete key twice in one group is one. *)
\* the complete key text of source line k: all that precedes '=' but spaces
CompleteKey(k) == TrimEnd(RawKey(SourceLine(input, k)), {SP})
\* the entry lines of the group opened by the header at line h, up to line p
EntriesUnder(h, p) ==
    {j \in (h + 1)..p : IsEntry(j) /\ OpenHeader(j) = h}

C11_LocaleInKeyIdentity ==
    (Assembling /\ WellFormed(input)) =>
        /\ \A k \in 1..Len(lines) :
             IsEntry(k) => lines[k].key = CompleteKey(k)
        /\ (consumed >= 1 /\ IsEntry(consumed) /\ HeadersBefore(consumed) # {})
             => (IsErr("DuplicateKey", CompleteKey(consumed))
                   <=> \E j \in EntriesUnder(OpenHeader(consumed), consumed - 1) :
                          CompleteKey(j) = CompleteKey(consumed))
        /\ (pc = "done" /\ result.tag = "Ok") =>
             \A h \in HeadersBefore(Len(lines) + 1) :
                /\ DOMAIN result.groups[lines[h].name]
                     = {CompleteKey(j) : j \in EntriesUnder(h, Len(lines))}
                /\ Cardinality(DOMAIN result.groups[lines[h].name])
                     = Cardinality(EntriesUnder(h, Len(lines)))

\* one group holds the base key and two different locale suffixes of it
C11_Witness ==
    /\ pc = "done" /\ result.tag = "Ok"
    /\ \E g \in DOMAIN result.groups :
         {<<"N">>, <<"N", "[", "s", "]">>,
          <<"N", "[", "s", "_", "Y", "]">>} \subseteq DOMAIN result.groups[g]

(* C12: a group-header line is accepted only as '[', one or more characters
   other than '[' and ']', then ']' immediately followed by the line-feed,
   and the name is retained verbatim; '[]', a bracket inside the name and any
   character between ']' and the line-feed make the parse fail. *)
\* the positions at which a source line starts
LineStarts(s) == {p \in 1..Len(s) : p = 1 \/ s[p - 1] = LF}
Range(f) == {f[i] : i \in DOMAIN f}

C12_GroupHeaderForm ==
    (Parsed /\ result # ErrParse) =>
        /\ \A p \in LineStarts(input) : input[p] = "[" =>
             \E q \in (p + 2)..(Len(input) - 1) :
                /\ input[q] = "]" /\ input[q + 1] = LF
                /\ \A r \in (p + 1)..(q - 1) : input[r] \notin {"[", "]"}
                /\ GroupHeader(SubSeq(input, p + 1, q - 1)) \in Range(lines)
        /\ Cardinality({i \in 1..Len(lines) : IsHeader(i)})
             = Cardinality({p \in LineStarts(input) : input[p] = "["})

\* a header whose name has a space in it was accepted with the name unchanged
C12_Witness ==
    /\ Parsed /\ result # ErrParse
    /\ GroupHeader(<<"g", SP, "h">>) \in Range(lines)

----------------------------------------------------------------------------
(* A raw value read declaratively, for the properties below *)

\* the letters that follow a backslash in an escape, and what each denotes
EscapeLetters == {"s", "n", "t", "r", "\\"}
Denotes(c) ==
    CASE c = "s" -> SP
      [] c = "n" -> LF
      [] c = "t" -> TAB
      [] c = "r" -> CR
      [] OTHER -> c

\* the start of the run of backslashes that position i of v is in
RunStart(v, i) == Min({b \in 1..i : \A j \in b..i : v[j] = "\\"})
\* the positions of the backslashes that start an escape with a letter of E:
\* those at an even distance from the start of their run of backslashes
EscapesAt(v, E) ==
    {i \in 1..(Len(v) - 1) :
        /\ v[i] = "\\"
        /\ (i - RunStart(v, i)) % 2 = 0
        /\ v[i + 1] \in E}
\* the k-th smallest element of the set S of positions
NthOf(S, k) == CHOOSE p \in S : Cardinality({q \in S : q <= p}) = k
\* v with each escape replaced by the character it denotes
Unescaped(v, E) ==
    LET kept == {i \in 1..Len(v) : (i - 1) \notin EscapesAt(v, E)}
    IN  [k \in 1..Cardinality(kept) |->
            LET p == NthOf(kept, k)
            IN  IF p \in EscapesAt(v, E) THEN Denotes(v[p + 1]) ELSE v[p]]

\* the positions of the semicolons of v that no backslash escapes
Separators(v) ==
    {i \in 1..Len(v) :
        v[i] = ";" /\ (i - 1) \notin EscapesAt(v, EscapeLetters \cup {";"})}
\* the k-th part of v between unescaped semicolons
Segment(v, k) ==
    LET from == IF k = 1 THEN 1 ELSE NthOf(Separators(v), k - 1) + 1
        to == IF k = Cardinality(Separators(v)) + 1 THEN Len(v)
              ELSE NthOf(Separators(v), k) - 1
    IN  SubSeq(v, from, to)
\* the parts of v between unescaped semicolons, each unescaped
Items(v) ==
    [k \in 1..(Cardinality(Separators(v)) + 1) |->
        Unescaped(Segment(v, k), EscapeLetters \cup {";"})]

Called(fn) == call.fn = fn

----------------------------------------------------------------------------
(* C16: strings splits the raw value at every unescaped ';' and only there;
   inside an item '\;' decodes to ';' without splitting and '\s' '\n' '\t'
   '\r' '\\' decode to space, line-feed, tab, carriage-return and backslash;
   the items are returned in source order. *)
C16_StringsSplit ==
    Called("strings") =>
        /\ ret.ok
        /\ Len(ret.val) \in {Len(Items(call.raw)), Len(Items(call.raw)) - 1}
        /\ \A k \in 1..Len(ret.val) : ret.val[k] = Items(call.raw)[k]

\* 'd\;c;b;' decoded to the two items 'd;c' and 'b'
C16_Witness ==
    /\ Called("strings")
    /\ call.raw = <<"d", "\\", ";", "c", ";", "b", ";">>
    /\ ret = ParseOk(<< <<"d", ";", "c">>, <<"b">> >>)

(* C17: strings returns a list of at least one element: if splitting gives
   more than one element and the last is empty, exactly that one element is
   dropped and no other; the empty value and ';' both give ['']. *)
C17_StringsNeverEmpty ==
    Called("strings") =>
        LET items == Items(call.raw)
            n == Len(items)
        IN  /\ ret.ok
            /\ Len(ret.val) >= 1
            /\ IF n > 1 /\ items[n] = <<>>
               THEN ret.val = SubSeq(items, 1, n - 1)
               ELSE ret.val = items
            /\ call.raw \in {<<>>, <<";">>} => ret.val = << <<>> >>

\* two trailing separators: one empty element was dropped, one was kept
C17_Witness ==
    /\ Called("strings")
    /\ call.raw = <<"a", ";", ";">>
    /\ ret = ParseOk(<< <<"a">>, <<>> >>)

(* C18, as claimed: decoding a raw value as String is the identity: it
   succeeds and the decoded string equals the raw value. *)
C18_StringIdentity ==
    Called("string") => (ret.ok /\ ret.val = call.raw)

(* C18, amended: decoding a raw value as String always succeeds; the decoded
   string equals the raw value exactly when the raw value has no backslash
   followed by one of s, n, t, r or a backslash. *)
HasEscapePair(v) ==
    \E i \in 1..(Len(v) - 1) : v[i] = "\\" /\ v[i + 1] \in EscapeLetters

C18_StringIdentityWithoutEscapes ==
    Called("string") =>
        /\ ret.ok
        /\ (ret.val = call.raw) <=> ~HasEscapePair(call.raw)

\* a backslash before a letter that is no escape was kept as it is
C18_Witness ==
    /\ Called("string")
    /\ call.raw = <<"\\", "a">>
    /\ ret = ParseOk(<<"\\", "a">>)

(* C19: string decodes the escapes '\s' '\n' '\t' '\r' '\\' to space,
   line-feed, tab, carriage-return and backslash wherever they occur, copies
   every other character unchanged, treats ';' as an ordinary character and
   accepts the empty value. *)
C19_StringEscapes ==
    Called("string") =>
        /\ ret.ok
        /\ ret.val = Unescaped(call.raw, EscapeLetters)

\* several escapes in one value, as in the test parse_string
C19_Witness ==
    /\ Called("string")
    /\ call.raw = <<"a", SP, "\\", "s", SP, "b", SP, "\\", "n", SP,
                    "\\", "\\", SP, "f">>
    /\ ret = ParseOk(<<"a", SP, SP, SP, "b", SP, LF, SP, "\\", SP, "f">>)

(* C20: boolean succeeds only for exactly 'true', giving true, and exactly
   'false', giving false; every other value fails: the empty value, other
   capitalisation, leading or trailing characters. *)
C20_BooleanExact ==
    Called("boolean") =>
        /\ ret.ok <=> call.raw \in {<<"t", "r", "u", "e">>,
                                     <<"f", "a", "l", "s", "e">>}
        /\ call.raw = <<"t", "r", "u", "e">> => ret = ParseOk(TRUE)
        /\ call.raw = <<"f", "a", "l", "s", "e">> => ret = ParseOk(FALSE)

\* 'true' followed by one more character was rejected
C20_Witness ==
    /\ Called("boolean")
    /\ Len(call.raw) = 5
    /\ SubSeq(call.raw, 1, 4) = <<"t", "r", "u", "e">>
    /\ ret = ParseErr

----------------------------------------------------------------------------
(* A lookup read declaratively, for the properties below *)

\* the group an accessor was called on
CalledGroup == result.groups[call.group]

\* the candidate keys of a lookup key, each with its rank of precedence
Candidates(k) ==
    IF k.kind = "String" THEN {<<1, k.key>>}
    ELSE LET sfx(x) == k.key \o <<"[">> \o k.lang \o x \o <<"]">>
             c == k.country
             m == k.modifier
         IN  (IF c.some /\ m.some
              THEN {<<1, sfx(<<"_">> \o c.val \o <<"@">> \o m.val)>>}
              ELSE {})
             \cup (IF c.some THEN {<<2, sfx(<<"_">> \o c.val)>>} ELSE {})
             \cup (IF m.some THEN {<<3, sfx(<<"@">> \o m.val)>>} ELSE {})
             \cup {<<4, sfx(<<>>)>>, <<5, k.key>>}

\* the candidates of k that are keys of the group e
PresentIn(e, k) == {c \in Candidates(k) : c[2] \in DOMAIN e}

\* the value of the present candidate of the lowest rank, if one is present
Lookup(e, k) ==
    IF PresentIn(e, k) = {} THEN None
    ELSE LET best == CHOOSE c \in PresentIn(e, k) :
                         \A d \in PresentIn(e, k) : c[1] <= d[1]
         IN  Some(e[best[2]])

\* what the value grammar of the type V makes of the raw value v
Decoded(V, v) ==
    CASE V = "String" -> ParseOk(Unescaped(v, EscapeLetters))
      [] V = "VecString" ->
            LET items == Items(v)
                n == Len(items)
            IN  ParseOk(IF n > 1 /\ items[n] = <<>>
                        THEN SubSeq(items, 1, n - 1) ELSE items)
      [] V = "bool" ->
            IF v = <<"t", "r", "u", "e">> THEN ParseOk(TRUE)
            ELSE IF v = <<"f", "a", "l", "s", "e">> THEN ParseOk(FALSE)
            ELSE ParseErr

\* the key k of the group e is present but its value is no value of type V
Malformed(e, k, V) ==
    Lookup(e, KeyString(k)).some
        /\ ~Decoded(V, Lookup(e, KeyString(k)).val).ok

\* what binding the declared field f to the group e gives
Bound(e, f) ==
    LET raw == Lookup(e, KeyString(f.key))
    IN  IF ~raw.some
        THEN IF f.required
             THEN [ok |-> FALSE, err |-> "RequiredKeyMissing", key |-> f.key]
             ELSE [ok |-> TRUE, val |-> None]
        ELSE IF Malformed(e, f.key, f.type)
        THEN [ok |-> FALSE, err |-> "Parse"]
        ELSE [ok |-> TRUE,
              val |-> IF f.required THEN Decoded(f.type, raw.val).val
                      ELSE Some(Decoded(f.type, raw.val).val)]

----------------------------------------------------------------------------
(* C13: get_raw with a locale descriptor returns the value of the first key
   present in the group among key[lang_COUNTRY@MODIFIER] (only with country
   and modifier), key[lang_COUNTRY] (only with country), key[lang@MODIFIER]
   (only with modifier), key[lang] and the unsuffixed key, in this order; it
   returns absent only if none is present; with a plain string key the only
   candidate is that exact key. *)
C13_LocalePrecedence ==
    Called("get_raw") =>
        /\ ret = Lookup(CalledGroup, call.key)
        /\ ~ret.some <=> PresentIn(CalledGroup, call.key) = {}
        /\ call.key.kind = "String" =>
              ret.some <=> call.key.key \in DOMAIN CalledGroup

\* N, N[s], N[s_Y] and N[s@L] without N[s_Y@L], looked up with lang s,
\* country Y and modifier L: the value of N[s_Y]
C13_Witness ==
    /\ Called("get_raw")
    /\ call.key = KeyLocalized(<<"N">>, <<"s">>, Some(<<"Y">>), Some(<<"L">>))
    /\ DOMAIN CalledGroup =
          { <<"N">>, <<"N", "[", "s", "]">>,
            <<"N", "[", "s", "_", "Y", "]">>,
            <<"N", "[", "s", "@", "L", "]">> }
    /\ ret = Some(<<"2">>)

(* C14: get::<T>(key) returns absent exactly when get_raw(key) returns
   absent, and otherwise returns present with the result of applying the
   value grammar of T to the raw value found; a malformed value is present
   with a failure, never absent and never a default value. *)
C14_GetKeepsFailure ==
    Called("get") =>
        LET raw == Lookup(CalledGroup, call.key)
        IN  /\ ret.some <=> raw.some
            /\ raw.some =>
                  /\ ret.val.ok <=> Decoded(call.type, raw.val).ok
                  /\ ret.val.ok => ret.val = Decoded(call.type, raw.val)

\* the key b with the value 'tru' read as a bool: present with a failure
C14_Witness ==
    /\ Called("get")
    /\ call.key = KeyString(<<"b">>)
    /\ call.type = "bool"
    /\ <<"b">> \in DOMAIN CalledGroup
    /\ CalledGroup[<<"b">>] = <<"t", "r", "u">>
    /\ ret.some
    /\ ~ret.val.ok

(* C15: get_required(key) returns RequiredKeyMissing(key) iff the key is
   absent and a decode error iff it is present but malformed;
   get_optional(key) returns Ok(None) iff the key is absent and a decode
   error iff it is present but malformed; try_from_group evaluates the
   declared fields in declaration order and returns the error of the first
   failing field, or the fully populated struct if none fails. *)
C15_SchemaBinding ==
    /\ Called("get_required") =>
          LET absent == ~Lookup(CalledGroup, KeyString(call.key)).some
              bad == Malformed(CalledGroup, call.key, call.type)
          IN  /\ (~ret.ok /\ ret.err = "RequiredKeyMissing"
                     /\ ret.key = call.key) <=> absent
              /\ (~ret.ok /\ ret.err = "Parse") <=> bad
              /\ ret.ok <=> ~absent /\ ~bad
              /\ ret = Bound(CalledGroup, Field(call.key, TRUE, call.type))
    /\ Called("get_optional") =>
          LET absent == ~Lookup(CalledGroup, KeyString(call.key)).some
              bad == Malformed(CalledGroup, call.key, call.type)
          IN  /\ (ret.ok /\ ~ret.val.some) <=> absent
              /\ (~ret.ok /\ ret.err = "Parse") <=> bad
              /\ (ret.ok /\ ret.val.some) <=> ~absent /\ ~bad
              /\ ret = Bound(CalledGroup, Field(call.key, FALSE, call.type))
    /\ Called("try_from_group") =>
          LET schema == call.schema
              failing == {i \in 1..Len(schema) :
                             ~Bound(CalledGroup, schema[i]).ok}
          IN  IF failing = {}
              THEN /\ ret.ok
                   /\ ret.val = [i \in 1..Len(schema) |->
                                    Bound(CalledGroup, schema[i]).val]
              ELSE /\ ~ret.ok
                   /\ ret = Bound(CalledGroup, schema[Min(failing)])

\* a struct whose first field is a required key that is absent and whose
\* second field is a present key that is no bool: the first error is returned
C15_Witness ==
    /\ Called("try_from_group")
    /\ call.schema = << Field(<<"b">>, TRUE, "String"),
                        Field(<<"a">>, FALSE, "bool") >>
    /\ DOMAIN CalledGroup = {<<"a">>}
    /\ CalledGroup[<<"a">>] = <<"x", ";", "y", ";">>
    /\ ret = FromRequiredKeyMissing(<<"b">>)

----------------------------------------------------------------------------
(* C21: numeric accepts exactly the values made of an optional single '+' or
   '-', one or more digits and optionally a '.' followed by zero or more
   digits, such as '+10.02', '-5' and '10.'; it rejects every other value:
   no digits at all, a leading '.', two signs, an exponent or other trailing
   characters. *)
IsNumericForm(v) ==
    LET body == IF v # <<>> /\ v[1] \in {"+", "-"} THEN Tail(v) ELSE v
    IN  /\ body # <<>>
        /\ body[1] \in Digits
        /\ \A i \in 1..Len(body) : body[i] \in Digits \cup {"."}
        /\ Cardinality({i \in 1..Len(body) : body[i] = "."}) <= 1

C21_NumericForm ==
    Called("numeric") => (ret.ok <=> IsNumericForm(call.raw))

\* '10.' was accepted as the number 10
C21_Witness ==
    /\ Called("numeric")
    /\ call.raw = <<"1", "0", ".">>
    /\ ret = ParseOk([negative |-> FALSE, num |-> 10, scale |-> 0])

----------------------------------------------------------------------------
(* An Exec value read declaratively, for the properties below *)

\* the position of the first space of v, or the position after v
FirstSpace(v) == Min({i \in 1..Len(v) : v[i] = SP} \cup {Len(v) + 1})

\* the positions after the first space where a run of non-space characters
\* starts
TokenStarts(v) ==
    {i \in (FirstSpace(v) + 1)..Len(v) : v[i] # SP /\ v[i - 1] = SP}

\* the run of non-space characters that starts at position i
TokenAt(v, i) ==
    SubSeq(v, i, Min({j \in i..Len(v) : v[j] = SP} \cup {Len(v) + 1}) - 1)

\* the k-th run of non-space characters after the first space
Token(v, k) == TokenAt(v, NthOf(TokenStarts(v), k))

\* the argument a is a reading of the whole token t
ReadsToken(a, t) ==
    IF a.tag = "FieldCode" THEN t = <<"%", a.val>>
    ELSE a.val = t \/ (t = <<"%", "%">> /\ a.val = <<"%">>)

(* C22: the program is the raw text before the first space, taken as it is
   and never decoded as a placeholder or a quoted string; the remaining
   tokens separated by single spaces are the arguments in source order; a
   value without a space has zero arguments. *)
C22_ProgramAndArguments ==
    Called("exec") =>
        /\ (call.raw # <<>> /\ FirstSpace(call.raw) = Len(call.raw) + 1) =>
              ret = ParseOk([program |-> call.raw, arguments |-> <<>>])
        /\ ret.ok =>
              ret.val.program = SubSeq(call.raw, 1, FirstSpace(call.raw) - 1)
        /\ (ret.ok /\ \A i \in 1..Len(call.raw) : call.raw[i] # QUOTE) =>
              /\ Len(ret.val.arguments) = Cardinality(TokenStarts(call.raw))
              /\ \A k \in 1..Len(ret.val.arguments) :
                    ReadsToken(ret.val.arguments[k], Token(call.raw, k))

\* a program that looks like a placeholder, with two arguments
C22_Witness ==
    /\ Called("exec")
    /\ call.raw = <<"%", "f", SP, "-", "b", SP, "x">>
    /\ ret = ParseOk([program |-> <<"%", "f">>,
                      arguments |-> <<ArgString(<<"-", "b">>),
                                      ArgString(<<"x">>)>>])

\* v is one or more runs of non-space characters separated by single spaces
SingleSpaced(v) ==
    /\ v # <<>>
    /\ v[1] # SP
    /\ v[Len(v)] # SP
    /\ \A i \in 1..(Len(v) - 1) : ~(v[i] = SP /\ v[i + 1] = SP)

(* C23: an argument token that is exactly '%' followed by one non-space
   character c decodes to the placeholder code c, except that '%%' decodes
   to the literal '%'; an argument token that starts with '%' but is not
   exactly two characters long, such as a lone '%' or '%foo', is no
   placeholder and decodes to a literal of the whole token. *)
C23_PlaceholderToken ==
    (/\ Called("exec")
     /\ SingleSpaced(call.raw)
     /\ \A i \in 1..Len(call.raw) : call.raw[i] # QUOTE) =>
        /\ ret.ok
        /\ Len(ret.val.arguments) = Cardinality(TokenStarts(call.raw))
        /\ \A k \in 1..Len(ret.val.arguments) :
              LET t == Token(call.raw, k)
                  a == ret.val.arguments[k]
              IN  t[1] = "%" =>
                     IF t = <<"%", "%">> THEN a = ArgString(<<"%">>)
                     ELSE IF Len(t) = 2 THEN a = ArgFieldCode(t[2])
                     ELSE a = ArgString(t)

\* the character at position j of v is the second of a backslash pair
IsEscapedAt(v, j) ==
    /\ j > 1
    /\ v[j - 1] = BACKSLASH
    /\ (j - 1 - RunStart(v, j - 1)) % 2 = 0

\* the quotes after position o that no backslash escapes
ClosingQuotes(v, o) ==
    {j \in (o + 1)..Len(v) : v[j] = QUOTE /\ ~IsEscapedAt(v, j)}

\* t with each backslash pair replaced by its second character
Unquoted(t) ==
    LET kept == {i \in 1..Len(t) :
                    ~(t[i] = BACKSLASH /\ (i - RunStart(t, i)) % 2 = 0)}
    IN  [k \in 1..Cardinality(kept) |-> t[NthOf(kept, k)]]

\* the first argument of v is quoted: it starts with a quote right after the
\* first space and its closing quote is followed by a space or ends v
FirstArgumentQuoted(v) ==
    LET o == FirstSpace(v) + 1
    IN  /\ FirstSpace(v) > 1
        /\ o <= Len(v)
        /\ v[o] = QUOTE
        /\ ClosingQuotes(v, o) # {}
        /\ LET q == Min(ClosingQuotes(v, o))
           IN  q = Len(v) \/ v[q + 1] = SP

\* the text between the quotes of the first argument
FirstInterior(v) ==
    SubSeq(v, FirstSpace(v) + 2, Min(ClosingQuotes(v, FirstSpace(v) + 1)) - 1)

(* C24: an argument that begins and ends with '"' and whose interior is made
   of characters other than '\' and '"' and of pairs of a backslash and any
   character decodes to one literal: the interior with each backslash pair
   replaced by its second character; the interior may contain spaces without
   splitting the argument, and any character may follow the backslash. *)
C24_QuotedArgument ==
    (Called("exec") /\ FirstArgumentQuoted(call.raw)) =>
        LET v == call.raw
            literal == ArgString(Unquoted(FirstInterior(v)))
        IN  /\ Min(ClosingQuotes(v, FirstSpace(v) + 1)) = Len(v) =>
                  ret = ParseOk([program |-> SubSeq(v, 1, FirstSpace(v) - 1),
                                 arguments |-> <<literal>>])
            /\ ret.ok => ret.val.arguments[1] = literal

\* a quoted argument with a space and an escaped quote inside
C24_Witness ==
    /\ Called("exec")
    /\ call.raw = <<"p", SP, QUOTE, "a", SP, BACKSLASH, QUOTE, "b", QUOTE,
                    SP, "c">>
    /\ ret = ParseOk([program |-> <<"p">>,
                      arguments |-> <<ArgString(<<"a", SP, QUOTE, "b">>),
                                      ArgString(<<"c">>)>>])

\* an argument of v opens with a quote that no later quote of v closes
UnterminatedQuote(v) ==
    \E o \in TokenStarts(v) : v[o] = QUOTE /\ ClosingQuotes(v, o) = {}

(* C25: the decode fails if and only if the value has malformed quoting, an
   argument with an unterminated quote: an unterminated quote is a parse
   error, and every value without malformed quoting decodes, each argument
   token that is neither a placeholder code nor a well-formed quoted literal
   becoming a bare literal. *)
C25_FailsOnlyOnQuoting ==
    (Called("exec") /\ SingleSpaced(call.raw)) =>
        (~ret.ok <=> UnterminatedQuote(call.raw))

(* C28: decoding an Exec value composes two decodes: the raw value is first
   decoded with the String value grammar, which replaces escapes such as
   '\\' and '\s', and the command-line grammar is applied to the result; so
   an escape that decodes to a space acts as an argument separator, and the
   backslash escapes of a quoted argument are doubled in the raw value. *)
C28_ExecAfterString ==
    Called("Exec::from_value") =>
        LET u == Unescaped(call.raw, EscapeLetters)
        IN  /\ (u # <<>> /\ FirstSpace(u) = Len(u) + 1) =>
                  ret = ParseOk([program |-> u, arguments |-> <<>>])
            /\ ret.ok =>
                  ret.val.program = SubSeq(u, 1, FirstSpace(u) - 1)
            /\ (ret.ok /\ \A i \in 1..Len(u) : u[i] # QUOTE) =>
                  /\ Len(ret.val.arguments) = Cardinality(TokenStarts(u))
                  /\ \A k \in 1..Len(ret.val.arguments) :
                        ReadsToken(ret.val.arguments[k], Token(u, k))
            /\ (ret.ok /\ FirstArgumentQuoted(u)) =>
                  ret.val.arguments[1] = ArgString(Unquoted(FirstInterior(u)))

\* the start of the value of the test emacsclient_mail: '\s' separates and
\* each doubled backslash escapes the character after it
C28_Witness ==
    /\ Called("Exec::from_value")
    /\ call.raw = <<"s", "h", BACKSLASH, "s", "-", "c", SP, QUOTE, "u", "=",
                    BACKSLASH, BACKSLASH, "$", "(", "e", SP,
                    BACKSLASH, BACKSLASH, QUOTE, BACKSLASH, BACKSLASH, "$",
                    "1", BACKSLASH, BACKSLASH, QUOTE, ")", QUOTE, SP, "%",
                    "u">>
    /\ ret = ParseOk([program |-> <<"s", "h">>,
                      arguments |->
                          << ArgString(<<"-", "c">>),
                             ArgString(<<"u", "=", "$", "(", "e", SP, QUOTE,
                                         "$", "1", QUOTE, ")">>),
                             ArgFieldCode("u") >>])

----------------------------------------------------------------------------
(* C26: during DesktopFile::parse, whenever the currently open group is set
   it names a group that is present in the groups map, after any prefix of
   the lines; so the lookup of the open group on an Entry line, 'current
   group should exist', never fails. *)
C26_OpenGroupExists ==
    /\ current_group_name.some => current_group_name.val \in DOMAIN groups
    /\ result # Panic

\* an Entry line was stored in the open group
C26_Witness ==
    /\ consumed >= 2
    /\ lines[consumed].tag = "Entry"
    /\ current_group_name.some
    /\ current_group_name.val \in DOMAIN groups
    /\ lines[consumed].key \in DOMAIN groups[current_group_name.val]
    /\ result = NoResult

\* a piece of the text that ends with a line-feed has one of the four line
\* forms; only the name of a group header may hold line-feeds
IsPieceForm(l) ==
    \/ IsHeaderForm(l)
    \/ /\ \A i \in 1..(Len(l) - 1) : l[i] # LF
       /\ IsLineForm(l)

\* the text is a sequence of pieces that each have a line form
Grammatical(s) ==
    /\ Terminated(s)
    /\ \E C \in SUBSET LFPos(s) :
          /\ s # <<>> => Len(s) \in C
          /\ \A c \in C :
                IsPieceForm(SubSeq(s, Max({0} \cup {d \in C : d < c}) + 1, c))

(* C27: DesktopFile::parse runs the line grammar over the whole input before
   any assembly: if any line of the input fails the grammar the result is
   the Parse error, even when an earlier line is a structural violation; a
   structural error is returned only for inputs whose every line is
   grammatical. *)
C27_GrammarBeforeAssembly ==
    /\ ~Grammatical(input) =>
          /\ pc \in {"start", "done"}
          /\ pc = "done" => result = ErrParse
          /\ consumed = 0
          /\ groups = EmptyMap
    /\ (result.tag = "Err" /\ result # ErrParse) => Grammatical(input)

\* an entry outside of a group, then a line of no form: the Parse error
C27_Witness ==
    /\ pc = "done"
    /\ result = ErrParse
    /\ NumLines(input) >= 2
    /\ Terminated(input)
    /\ IsEntryForm(SourceLine(input, 1), {SP})
    /\ ~IsLineForm(SourceLine(input, 2))

----------------------------------------------------------------------------
(* C29: after update_selected_index of every frame, for any stored index,
   any number n of entries and any key motion, the selected index is within
   bounds: less than n, or 0 when n = 0; a stored index that is out of
   bounds after the list shrank jumps to 0, Up at index 0 stays at 0, Down
   at the last index stays there, and nothing underflows when the list is
   empty. *)
C29_SelectedIndexInBounds ==
    frame.shown =>
        LET n == Len(frame.entries)
        IN  /\ IF n = 0 THEN frame.selected_index = 0
               ELSE frame.selected_index < n
            /\ frame.selected_index >= 0
            /\ (frame.stored >= n /\ frame.motion # "Down") =>
                  frame.selected_index = 0

(* C30, as claimed: show reports a selected entry only if Enter was pressed
   or an entry was double-clicked in the frame and the selected index is
   less than the number of entries, and the entry reported is the one at the
   selected index; with an empty entry list, or after the list shrank below
   the stored index, no entry is reported and nothing is read out of
   bounds. *)
C30_SelectedEntry ==
    frame.shown =>
        LET n == Len(frame.entries)
            out == frame.selected_entry
        IN  /\ out # IndexPanic
            /\ out # None =>
                  /\ frame.enter_pressed \/ frame.double_clicked
                  /\ frame.selected_index < n
                  /\ out = Some(frame.entries[frame.selected_index + 1])
            /\ (n = 0 \/ frame.stored >= n) => out = None

(* C30, amended: as claimed, except that only an empty entry list excludes a
   report: after the list shrank below the stored index the selected index
   restarts from 0, so an entry can be reported, and it is the first entry,
   or the second after Down. *)
C30_SelectedEntryInBounds ==
    frame.shown =>
        LET n == Len(frame.entries)
            out == frame.selected_entry
        IN  /\ out # IndexPanic
            /\ out # None =>
                  /\ frame.enter_pressed \/ frame.double_clicked
                  /\ frame.selected_index < n
                  /\ out = Some(frame.entries[frame.selected_index + 1])
            /\ n = 0 => out = None
            /\ (frame.stored >= n /\ out # None) =>
                  frame.selected_index = (IF frame.motion = "Down" /\ n > 1
                                          THEN 1 ELSE 0)

\* the list shrank from three entries to one below the stored index 2 and
\* Enter was pressed: the first entry is reported
C30_Witness ==
    /\ frame.shown
    /\ frame.stored = 2
    /\ Len(frame.entries) = 1
    /\ frame.enter_pressed
    /\ frame.selected_index = 0
    /\ frame.selected_entry = Some(<<"entry", 1>>)

====
